---- MODULE Spec2Model ----
(***************************************************************************)
(* Model of the in-memory TTL cache (cache/cache.go) and of the caching    *)
(* decorator of the persistence repository (cache/cached_repository.go)    *)
(* of tyagnii/ecom_test.                                                   *)
(*                                                                         *)
(* Time is counted in minutes: time.Minute is 1.  Go strings are modelled  *)
(* as the sequences of their bytes, so that the key construction           *)
(* ("banner:" + string(rune(id))) and the prefix test of                   *)
(* InvalidateTopBanners (key[:11]) are computed as the code computes them. *)
(***************************************************************************)
EXTENDS Integers, Sequences, FiniteSets, TLC

\* ------------------------------------------------------------------------
\* Bounds of the model
\* ------------------------------------------------------------------------

\* Number of operations (handler calls) in one behaviour.
MaxOps == 3

\* The instants (minutes since construction) at which operations are called.
\* At 3 an entry stored at 0 with the click-stats or top-banners TTL has
\* expired and one stored with the banner TTL has not.
Instants == {0, 3}

\* The goroutines that call the store concurrently, next to the reaper, and
\* the TTLs (minutes) they store entries with.
Goroutines == {"g1", "g2"}
ConcTTLs == {1, 5}

\* Ids at the edges of what string(rune(id)) encodes: negative, one byte,
\* the surrogate range (U+D800..U+DFFF), U+FFFD itself, past U+10FFFF.
KeyIDs == {-2, -1, 1, 2, 55296, 55297, 65533, 1114112}

\* The banners of a database whose serial ids have reached the surrogate
\* range.
KeyBannerIDs == {1, 55296, 55297}

\* Identifiers, names and limits the callers draw their arguments from.
BannerIDs == {1, 2}
ClickIDs == {1, 2}
Names == {"a", "b"}
Limits == {1, 10}

\* The instants and the TTLs (minutes) of the direct calls of the store: an
\* entry can be read before, at and after its expiration instant, and a TTL
\* can be negative or zero (time.Duration is a signed integer).
StoreInstants == {0, 3, 6}
StoreTTLs == {-1, 0, 1, 3, 5}

\* ------------------------------------------------------------------------
\* Program constants (cache/cache.go:306-313), in minutes
\* ------------------------------------------------------------------------
DefaultBannerTTL == 5
DefaultClickStatsTTL == 2
DefaultBannerStatsTTL == 3
DefaultTopBannersTTL == 1

\* The limit WarmCache preloads (cache/cached_repository.go:263).
WarmLimit == 10

Nil == [type |-> "nil"]
NoErr == "nil"
ErrNotFound == "not found"
ErrBacking == "backing store error"

VARIABLES
    cache,   \* InMemoryCache: [items, stats]
    repo,    \* the backing store behind db.Repository: [banners, clicks, bannerSeq, clickSeq]
    now,     \* time.Now(), in minutes
    ops,     \* number of operations completed so far
    last,    \* outcome of the latest operation, as its caller observes it
    setLog,  \* history: for each key, the instant, TTL and value of the latest
             \* direct set of the key (kept by the store-level actions)
    mu,       \* InMemoryCache.mu: the goroutine holding the write lock, the readers
    stopChan, \* InMemoryCache.stopChan: "open" or "closed"
    cleanup,  \* InMemoryCache.cleanup: the ticker (running, ticks buffered in C)
    reaper,   \* position of the cleanupExpired goroutine
    inflight, \* for each calling goroutine, the call it is in and its locals
    panicked, \* a goroutine has panicked (the process is gone)
    issued    \* history: the get, set and Stop calls made so far

\* The variables of the interleaved executions of the Cache Store.
conc == <<mu, stopChan, cleanup, reaper, inflight, panicked, issued>>

vars == <<cache, repo, now, ops, last, setLog, conc>>

\* ------------------------------------------------------------------------
\* Strings as byte sequences; cache keys
\* ------------------------------------------------------------------------

\* rune(id): conversion of a Go int to int32.  Every integer of the model is
\* within the int32 range, where the conversion keeps the value.
Rune(id) == id

\* string(r) for a rune r: the UTF-8 encoding of r, and of U+FFFD when r is
\* not a valid code point (negative, a surrogate, or above U+10FFFF).
RuneToString(r) ==
    IF r < 0 \/ r > 1114111 \/ (r >= 55296 /\ r <= 57343)
    THEN <<239, 191, 189>>
    ELSE IF r < 128 THEN <<r>>
    ELSE IF r < 2048 THEN <<192 + (r \div 64), 128 + (r % 64)>>
    ELSE IF r < 65536
    THEN <<224 + (r \div 4096), 128 + ((r \div 64) % 64), 128 + (r % 64)>>
    ELSE <<240 + (r \div 262144), 128 + ((r \div 4096) % 64),
           128 + ((r \div 64) % 64), 128 + (r % 64)>>

\* "banner:"
BannerPrefix == <<98, 97, 110, 110, 101, 114, 58>>
\* "click_stats:"
ClickStatsPrefix == <<99, 108, 105, 99, 107, 95, 115, 116, 97, 116, 115, 58>>
\* "banner_stats:"
BannerStatsPrefix == <<98, 97, 110, 110, 101, 114, 95, 115, 116, 97, 116, 115, 58>>
\* "top_banners:"
TopBannersPrefix == <<116, 111, 112, 95, 98, 97, 110, 110, 101, 114, 115, 58>>

BannerKey(id) == BannerPrefix \o RuneToString(Rune(id))
ClickStatsKey(id) == ClickStatsPrefix \o RuneToString(Rune(id))
BannerStatsKey(id) == BannerStatsPrefix \o RuneToString(Rune(id))
TopBannersKey(limit) == TopBannersPrefix \o RuneToString(Rune(limit))

\* ------------------------------------------------------------------------
\* Cache Store: CacheItem, get, set, delete
\* ------------------------------------------------------------------------

\* Mutant: an item counts as expired from its expiration instant on.
IsExpired_AtExpiration(item, t) == t >= item.ExpiresAt

\* Mutant: no item ever counts as expired.
IsExpired_Never(item, t) == FALSE

\* CacheItem.IsExpired: time.Now().After(item.ExpiresAt), at instant t.
IsExpired(item, t) == t > item.ExpiresAt

\* delete(c.items, key) of Go's map.
MapDelete(items, key) == [k \in (DOMAIN items) \ {key} |-> items[k]]

\* c.items[key] = item
MapStore(items, key, item) ==
    [k \in (DOMAIN items) \cup {key} |-> IF k = key THEN item ELSE items[k]]

\* Mutant: get serves an entry without looking at its expiration.
get_IgnoresExpiry(c, key, t) ==
    IF key \notin DOMAIN c.items
    THEN [c |-> [c EXCEPT !.stats.Misses = @ + 1], value |-> Nil, found |-> FALSE]
    ELSE [c |-> [c EXCEPT !.stats.Hits = @ + 1],
          value |-> c.items[key].Value, found |-> TRUE]

\* Mutant: an expired entry is removed and missed, but not counted expired.
get_ExpiredNotCounted(c, key, t) ==
    IF key \notin DOMAIN c.items
    THEN [c |-> [c EXCEPT !.stats.Misses = @ + 1], value |-> Nil, found |-> FALSE]
    ELSE IF IsExpired(c.items[key], t)
    THEN [c |-> [items |-> MapDelete(c.items, key),
                 stats |-> [c.stats EXCEPT !.Misses = @ + 1]],
          value |-> Nil, found |-> FALSE]
    ELSE [c |-> [c EXCEPT !.stats.Hits = @ + 1],
          value |-> c.items[key].Value, found |-> TRUE]

\* InMemoryCache.get at instant t: the cache afterwards, the value and found.
get(c, key, t) ==
    IF key \notin DOMAIN c.items
    THEN [c |-> [c EXCEPT !.stats.Misses = @ + 1], value |-> Nil, found |-> FALSE]
    ELSE IF IsExpired(c.items[key], t)
    THEN [c |-> [items |-> MapDelete(c.items, key),
                 stats |-> [c.stats EXCEPT !.Expirations = @ + 1, !.Misses = @ + 1]],
          value |-> Nil, found |-> FALSE]
    ELSE [c |-> [c EXCEPT !.stats.Hits = @ + 1],
          value |-> c.items[key].Value, found |-> TRUE]

\* Mutant: the expiration is the TTL added to the zero time, not to now.
set_FromZeroTime(c, key, value, ttl, t) ==
    [items |-> MapStore(c.items, key, [Value |-> value, ExpiresAt |-> ttl]),
     stats |-> [c.stats EXCEPT !.Sets = @ + 1]]

\* Mutant: a negative TTL is stored as a TTL of zero.
set_ClampsTTL(c, key, value, ttl, t) ==
    [items |-> MapStore(c.items, key,
                        [Value |-> value, ExpiresAt |-> t + (IF ttl < 0 THEN 0 ELSE ttl)]),
     stats |-> [c.stats EXCEPT !.Sets = @ + 1]]

\* Mutant: set leaves an entry that is already there as it is.
set_KeepsExisting(c, key, value, ttl, t) ==
    [items |-> IF key \in DOMAIN c.items THEN c.items
               ELSE MapStore(c.items, key, [Value |-> value, ExpiresAt |-> t + ttl]),
     stats |-> [c.stats EXCEPT !.Sets = @ + 1]]

\* Mutant: set puts the new value into the entry that is there and leaves
\* its expiration.
set_KeepsExpiration(c, key, value, ttl, t) ==
    [items |-> MapStore(c.items, key,
                        [Value |-> value,
                         ExpiresAt |-> IF key \in DOMAIN c.items
                                       THEN c.items[key].ExpiresAt ELSE t + ttl]),
     stats |-> [c.stats EXCEPT !.Sets = @ + 1]]

\* InMemoryCache.set at instant t.
set(c, key, value, ttl, t) ==
    [items |-> MapStore(c.items, key, [Value |-> value, ExpiresAt |-> t + ttl]),
     stats |-> [c.stats EXCEPT !.Sets = @ + 1]]

\* Mutant: delete counts every call, also when the key is absent.
delete_AlwaysCounts(c, key) ==
    [items |-> MapDelete(c.items, key),
     stats |-> [c.stats EXCEPT !.Deletes = @ + 1]]

\* InMemoryCache.delete.
delete(c, key) ==
    IF key \in DOMAIN c.items
    THEN [items |-> MapDelete(c.items, key),
          stats |-> [c.stats EXCEPT !.Deletes = @ + 1]]
    ELSE c

\* ------------------------------------------------------------------------
\* Cache Store: the lock, the ticker, the stop channel and the reaper
\* ------------------------------------------------------------------------

\* Mutant: Lock() never waits.
CanLock_NoExclusion(m) == TRUE

\* c.mu.Lock() returns only when no goroutine holds the lock, for writing or
\* for reading.
CanLock(m) == m.writer = "none" /\ m.readers = {}

\* c.mu.RLock() returns only when no goroutine holds the write lock.
CanRLock(m) == m.writer = "none"

\* Mutant: Unlock() leaves the lock with its holder.
Unlock_KeepsLock(m) == m

\* c.mu.Unlock()
Unlock(m) == [m EXCEPT !.writer = "none"]

\* A goroutine that is in no call of the store.
Idle == [pc |-> "idle", key |-> <<>>, ttl |-> 0, item |-> Nil, exists |-> FALSE,
         path |-> "none", tmp |-> Nil]

\* Mutant: the select of cleanupExpired has no case for the stop channel.
SelectCases_TickOnly(ticker, ch) == IF ticker.C > 0 THEN {"tick"} ELSE {}

\* The cases of the select of cleanupExpired that can proceed: a tick is
\* buffered in c.cleanup.C, the stop channel is closed.
SelectCases(ticker, ch) ==
    (IF ticker.C > 0 THEN {"tick"} ELSE {}) \cup (IF ch = "closed" THEN {"stop"} ELSE {})

\* Mutant: the sweep deletes only the entries that have not expired yet.
cleanupExpired_sweep_KeepsExpired(c, t) ==
    LET fresh == {k \in DOMAIN c.items : ~IsExpired(c.items[k], t)}
    IN  [items |-> [k \in (DOMAIN c.items) \ fresh |-> c.items[k]],
         stats |-> [c.stats EXCEPT !.Expirations = @ + Cardinality(fresh)]]

\* Mutant: the sweep counts the entries it removes as misses.
cleanupExpired_sweep_CountsAsMisses(c, t) ==
    LET expired == {k \in DOMAIN c.items : IsExpired(c.items[k], t)}
    IN  [items |-> [k \in (DOMAIN c.items) \ expired |-> c.items[k]],
         stats |-> [c.stats EXCEPT !.Misses = @ + Cardinality(expired)]]

\* The body of the tick case of cleanupExpired at instant t: every expired
\* entry is deleted and counted.
cleanupExpired_sweep(c, t) ==
    LET expired == {k \in DOMAIN c.items : IsExpired(c.items[k], t)}
    IN  [items |-> [k \in (DOMAIN c.items) \ expired |-> c.items[k]],
         stats |-> [c.stats EXCEPT !.Expirations = @ + Cardinality(expired)]]

\* ------------------------------------------------------------------------
\* Cache Facade: typed operations of InMemoryCache
\* ------------------------------------------------------------------------

\* Mutant: the typed getter returns whatever get found.
TypedGet_NoAssertion(c, key, type, t) == get(c, key, t)

\* The typed getters: get, then the type assertion value.(*T).
TypedGet(c, key, type, t) ==
    LET r == get(c, key, t)
    IN  IF r.found /\ r.value.type = type
        THEN r
        ELSE [c |-> r.c, value |-> Nil, found |-> FALSE]

InMemoryCache_GetBanner(c, id, t) == TypedGet(c, BannerKey(id), "Banner", t)

\* Mutant: the banner entry lives twice the TTL it was given.
InMemoryCache_SetBanner_DoubleTTL(c, banner, ttl, t) ==
    set(c, BannerKey(banner.ID), banner, ttl + ttl, t)

InMemoryCache_SetBanner(c, banner, ttl, t) == set(c, BannerKey(banner.ID), banner, ttl, t)

\* Mutant: the entry is kept and given an expiration instant in the past.
InMemoryCache_DeleteBanner_LeavesToExpire(c, id) ==
    IF BannerKey(id) \in DOMAIN c.items
    THEN [c EXCEPT !.items[BannerKey(id)].ExpiresAt = -1, !.stats.Deletes = @ + 1]
    ELSE c

InMemoryCache_DeleteBanner(c, id) == delete(c, BannerKey(id))

InMemoryCache_GetClickStats(c, bannerID, t) ==
    TypedGet(c, ClickStatsKey(bannerID), "ClickStats", t)

\* Mutant: click statistics are stored with the TTL of banners.
InMemoryCache_SetClickStats_BannerTTL(c, bannerID, stats, ttl, t) ==
    set(c, ClickStatsKey(bannerID), stats, DefaultBannerTTL, t)

InMemoryCache_SetClickStats(c, bannerID, stats, ttl, t) ==
    set(c, ClickStatsKey(bannerID), stats, ttl, t)

InMemoryCache_InvalidateClickStats(c, bannerID) == delete(c, ClickStatsKey(bannerID))

InMemoryCache_GetBannerWithStats(c, id, t) ==
    TypedGet(c, BannerStatsKey(id), "BannerWithStats", t)

InMemoryCache_SetBannerWithStats(c, id, stats, ttl, t) ==
    set(c, BannerStatsKey(id), stats, ttl, t)

\* Mutant: the key is built with the prefix of the banner namespace.
InMemoryCache_InvalidateBannerWithStats_BannerPrefix(c, id) == delete(c, BannerKey(id))

InMemoryCache_InvalidateBannerWithStats(c, id) == delete(c, BannerStatsKey(id))

InMemoryCache_GetTopBanners(c, limit, t) ==
    TypedGet(c, TopBannersKey(limit), "TopBanners", t)

InMemoryCache_SetTopBanners(c, limit, banners, ttl, t) ==
    set(c, TopBannersKey(limit), banners, ttl, t)

\* The keys the loop of InvalidateTopBanners deletes:
\* len(key) > 11 && key[:11] == "top_banners:".
TopBannersMatch(key) == Len(key) > 11 /\ SubSeq(key, 1, 11) = TopBannersPrefix

InMemoryCache_InvalidateTopBanners(c) ==
    LET doomed == {k \in DOMAIN c.items : TopBannersMatch(k)}
    IN  [items |-> [k \in (DOMAIN c.items) \ doomed |-> c.items[k]],
         stats |-> [c.stats EXCEPT !.Deletes = @ + Cardinality(doomed)]]

InMemoryCache_InvalidateBanner(c, id) ==
    InMemoryCache_InvalidateTopBanners(
        InMemoryCache_InvalidateBannerWithStats(
            InMemoryCache_InvalidateClickStats(
                InMemoryCache_DeleteBanner(c, id), id), id))

\* Mutant: Clear builds a new cache, counters included.
InMemoryCache_Clear_ResetsStats(c) ==
    [items |-> <<>>,
     stats |-> [Hits |-> 0, Misses |-> 0, Sets |-> 0, Deletes |-> 0, Expirations |-> 0]]

\* Mutant: Clear starts the set counter again.
InMemoryCache_Clear_ZeroesSets(c) ==
    [items |-> <<>>, stats |-> [c.stats EXCEPT !.Sets = 0]]

\* InMemoryCache.Clear: c.items = make(map[string]*CacheItem).
InMemoryCache_Clear(c) == [c EXCEPT !.items = <<>>]

\* Mutant: the size is derived from the counters.
InMemoryCache_Size_FromCounters(c) ==
    c.stats.Sets - c.stats.Deletes - c.stats.Expirations

\* InMemoryCache.Size: len(c.items).
InMemoryCache_Size(c) == Cardinality(DOMAIN c.items)

InMemoryCache_Stats(c) ==
    [Hits |-> c.stats.Hits, Misses |-> c.stats.Misses, Sets |-> c.stats.Sets,
     Deletes |-> c.stats.Deletes, Expirations |-> c.stats.Expirations,
     Size |-> Cardinality(DOMAIN c.items)]

\* NewInMemoryCache: an empty table and zero counters.
NewInMemoryCache ==
    [items |-> <<>>,
     stats |-> [Hits |-> 0, Misses |-> 0, Sets |-> 0, Deletes |-> 0, Expirations |-> 0]]

\* ------------------------------------------------------------------------
\* Backing store: the tables behind db.Repository
\* ------------------------------------------------------------------------

Banner(id, name) == [type |-> "Banner", ID |-> id, Name |-> name]

\* COUNT(*) FROM clicks WHERE bannerid = id
ClickCount(db, id) == Cardinality({k \in DOMAIN db.clicks : db.clicks[k] = id})

\* Repository.GetBannerByID, when the query itself does not fail.
Repository_GetBannerByID(db, id) ==
    IF id \in DOMAIN db.banners
    THEN [err |-> NoErr, value |-> Banner(id, db.banners[id])]
    ELSE [err |-> ErrNotFound, value |-> Nil]

\* Repository.CreateBanner: INSERT ... RETURNING id (a SERIAL column).
Repository_CreateBanner(db, name) ==
    [db EXCEPT !.banners = MapStore(@, db.bannerSeq + 1, name),
               !.bannerSeq = @ + 1]

\* Repository.UpdateBanner: UPDATE ... WHERE id; no row affected is an error.
Repository_UpdateBanner(db, banner) ==
    IF banner.ID \in DOMAIN db.banners
    THEN [err |-> NoErr, db |-> [db EXCEPT !.banners[banner.ID] = banner.Name]]
    ELSE [err |-> ErrNotFound, db |-> db]

\* Repository.DeleteBanner: DELETE ... WHERE id; the clicks of the banner go
\* with it (ON DELETE CASCADE, db/migrations/002_create_clicks_table.sql).
Repository_DeleteBanner(db, id) ==
    IF id \in DOMAIN db.banners
    THEN [err |-> NoErr,
          db |-> [db EXCEPT
                    !.banners = MapDelete(@, id),
                    !.clicks = [k \in {j \in DOMAIN @ : @[j] # id} |-> @[k]]]]
    ELSE [err |-> ErrNotFound, db |-> db]

\* Repository.CreateClick: INSERT ... RETURNING id; the foreign key on
\* bannerid rejects a click of a banner that does not exist.
Repository_CreateClick(db, bannerID) ==
    IF bannerID \in DOMAIN db.banners
    THEN [err |-> NoErr,
          db |-> [db EXCEPT !.clicks = MapStore(@, db.clickSeq + 1, bannerID),
                            !.clickSeq = @ + 1]]
    ELSE [err |-> ErrBacking, db |-> db]

\* Repository.GetClickByID
Repository_GetClickByID(db, id) ==
    IF id \in DOMAIN db.clicks
    THEN [err |-> NoErr, value |-> [type |-> "Click", ID |-> id, BannerID |-> db.clicks[id]]]
    ELSE [err |-> ErrNotFound, value |-> Nil]

\* Repository.DeleteClick
Repository_DeleteClick(db, id) ==
    IF id \in DOMAIN db.clicks
    THEN [err |-> NoErr, db |-> [db EXCEPT !.clicks = MapDelete(@, id)]]
    ELSE [err |-> ErrNotFound, db |-> db]

\* Repository.GetClickStats: a banner without clicks yields TotalClicks 0.
Repository_GetClickStats(db, bannerID) ==
    [type |-> "ClickStats", BannerID |-> bannerID, TotalClicks |-> ClickCount(db, bannerID)]

\* ORDER BY of strings: the names in their collation order.
NameOrder == <<"a", "b">>
NameRank(n) == CHOOSE i \in 1..Len(NameOrder) : NameOrder[i] = n

\* Repository.GetTopBanners: the result lists the query can return
\* (ORDER BY click_count DESC, b.name LIMIT limit; rows that tie in both are
\* in an order the database picks).
Repository_GetTopBanners(db, limit) ==
    LET ids == DOMAIN db.banners
        n == Cardinality(ids)
        Before(x, y) ==
            \/ ClickCount(db, x) > ClickCount(db, y)
            \/ /\ ClickCount(db, x) = ClickCount(db, y)
               /\ NameRank(db.banners[x]) <= NameRank(db.banners[y])
        orders == {s \in [1..n -> ids] :
                      /\ \A i, j \in 1..n : i # j => s[i] # s[j]
                      /\ \A i, j \in 1..n : i < j => Before(s[i], s[j])}
        Row(x) == [BannerID |-> x, BannerName |-> db.banners[x],
                   ClickCount |-> ClickCount(db, x)]
        m == IF limit < n THEN limit ELSE n
    IN  {[type |-> "TopBanners", rows |-> [i \in 1..m |-> Row(s[i])]] : s \in orders}

\* Repository.GetAllBanners: ORDER BY created_at DESC, i.e. newest id first.
RECURSIVE DescendingIDs(_)
DescendingIDs(ids) ==
    IF ids = {} THEN <<>>
    ELSE LET top == CHOOSE x \in ids : \A y \in ids : y <= x
         IN  <<top>> \o DescendingIDs(ids \ {top})

Repository_GetAllBanners(db) ==
    LET order == DescendingIDs(DOMAIN db.banners)
    IN  [i \in 1..Len(order) |-> Banner(order[i], db.banners[order[i]])]

\* The queries behind the reads that the decorator does not cache.  Each
\* yields the set of results the query can have: the tables of the model keep
\* no timestamps, so a row order or a row selection that depends on them is
\* any of the possible ones.

Click(db, id) == [type |-> "Click", ID |-> id, BannerID |-> db.clicks[id]]

\* The lists that hold every element of ids once, in any order.
Orders(ids) ==
    LET n == Cardinality(ids)
    IN  {s \in [1..n -> ids] : \A i, j \in 1..n : i # j => s[i] # s[j]}

\* The click rows of ids, ORDER BY timestamp DESC.
ClickRows(db, ids) ==
    {[err |-> NoErr, value |-> [i \in 1..Len(s) |-> Click(db, s[i])]] : s \in Orders(ids)}

\* The click rows a WHERE clause on the timestamp selects among ids.
ClickRowsInRange(db, ids) == UNION {ClickRows(db, sel) : sel \in SUBSET ids}

RECURSIVE SumSeq(_)
SumSeq(s) == IF s = <<>> THEN 0 ELSE Head(s) + SumSeq(Tail(s))

\* COUNT(*) ... GROUP BY hour (or day) over a selection of the clicks ids:
\* the click counts of the groups, in the order of the groups.
GroupCounts(ids) ==
    LET n == Cardinality(ids)
    IN  {[err |-> NoErr, value |-> [type |-> "ClickCounts", counts |-> s]] :
            s \in {q \in UNION {[1..m -> 1..n] : m \in 0..n} : SumSeq(q) <= n}}

ClicksOf(db, bannerID) == {k \in DOMAIN db.clicks : db.clicks[k] = bannerID}

\* Repository.GetBannerByName: QueryRow scans the first row WHERE name = $1.
Repository_GetBannerByName(db, name) ==
    LET ids == {x \in DOMAIN db.banners : db.banners[x] = name}
    IN  IF ids = {} THEN {[err |-> ErrNotFound, value |-> Nil]}
        ELSE {[err |-> NoErr, value |-> Banner(x, name)] : x \in ids}

\* ILIKE '%' + pattern + '%', for the one-letter lower-case names of the model.
NameMatches(name, namePattern) == namePattern = "" \/ namePattern = name

\* Repository.SearchBannersByName: ORDER BY name.
Repository_SearchBannersByName(db, namePattern) ==
    LET ids == {x \in DOMAIN db.banners : NameMatches(db.banners[x], namePattern)}
    IN  {[err |-> NoErr, value |-> [i \in 1..Len(s) |-> Banner(s[i], db.banners[s[i]])]] :
            s \in {o \in Orders(ids) :
                      \A i, j \in 1..Len(o) :
                          i < j => NameRank(db.banners[o[i]]) <= NameRank(db.banners[o[j]])}}

\* Repository.GetBannersWithClickCount: ORDER BY click_count DESC,
\* b.created_at DESC (the newer banner has the greater id).
Repository_GetBannersWithClickCount(db) ==
    {[err |-> NoErr,
      value |-> [i \in 1..Len(s) |->
                    [type |-> "BannerWithStats", Banner |-> Banner(s[i], db.banners[s[i]]),
                     ClickCount |-> ClickCount(db, s[i])]]] :
        s \in {o \in Orders(DOMAIN db.banners) :
                  \A i, j \in 1..Len(o) :
                      i < j => \/ ClickCount(db, o[i]) > ClickCount(db, o[j])
                               \/ /\ ClickCount(db, o[i]) = ClickCount(db, o[j])
                                  /\ o[i] > o[j]}}

Repository_GetAllClicks(db) == ClickRows(db, DOMAIN db.clicks)

Repository_GetClicksByBannerID(db, bannerID) == ClickRows(db, ClicksOf(db, bannerID))

Repository_GetClicksByDateRange(db) == ClickRowsInRange(db, DOMAIN db.clicks)

Repository_GetClicksByBannerIDAndDateRange(db, bannerID) ==
    ClickRowsInRange(db, ClicksOf(db, bannerID))

Repository_GetClicksByHour(db, bannerID) == GroupCounts(ClicksOf(db, bannerID))

Repository_GetClicksByDay(db, bannerID) == GroupCounts(ClicksOf(db, bannerID))

\* ------------------------------------------------------------------------
\* Cached Repository: the handlers, as functions of the cache c, the backing
\* store db, the arguments, the outcome of the backing-store calls (fail:
\* the call returns an error of its own) and the instant t.
\* A handler yields the cache and the backing store afterwards, the error and
\* the value it returns, whether the cache lookup hit, and the backing-store
\* calls it made, in order.
\* ------------------------------------------------------------------------

Outcome(c, db, err, ret, found, calls) ==
    [c |-> c, db |-> db, err |-> err, ret |-> ret, found |-> found, calls |-> calls]

\* Mutant: the create ends with the full cascade of the new id, as the
\* update does.
CachedRepository_CreateBanner_InvalidatesBanner(c, db, name, fail, t) ==
    IF fail
    THEN Outcome(c, db, ErrBacking, Nil, FALSE, <<"CreateBanner">>)
    ELSE LET db1 == Repository_CreateBanner(db, name)
             banner == Banner(db1.bannerSeq, name)
             c1 == InMemoryCache_SetBanner(c, banner, DefaultBannerTTL, t)
             c2 == InMemoryCache_InvalidateBanner(c1, banner.ID)
         IN  Outcome(c2, db1, NoErr, banner, FALSE, <<"CreateBanner">>)

CachedRepository_CreateBanner(c, db, name, fail, t) ==
    IF fail
    THEN Outcome(c, db, ErrBacking, Nil, FALSE, <<"CreateBanner">>)
    ELSE LET db1 == Repository_CreateBanner(db, name)
             banner == Banner(db1.bannerSeq, name)
             c1 == InMemoryCache_SetBanner(c, banner, DefaultBannerTTL, t)
             c2 == InMemoryCache_InvalidateTopBanners(c1)
         IN  Outcome(c2, db1, NoErr, banner, FALSE, <<"CreateBanner">>)

\* Mutant: a failed lookup is remembered as an empty banner.
CachedRepository_GetBannerByID_CachesError(c, db, id, fail, t) ==
    LET r == InMemoryCache_GetBanner(c, id, t)
        q == IF fail THEN [err |-> ErrBacking, value |-> Nil]
             ELSE Repository_GetBannerByID(db, id)
    IN  IF r.found
        THEN Outcome(r.c, db, NoErr, r.value, TRUE, <<>>)
        ELSE IF q.err # NoErr
        THEN Outcome(InMemoryCache_SetBanner(r.c, Banner(id, ""), DefaultBannerTTL, t),
                     db, q.err, Nil, FALSE, <<"GetBannerByID">>)
        ELSE Outcome(InMemoryCache_SetBanner(r.c, q.value, DefaultBannerTTL, t),
                     db, NoErr, q.value, FALSE, <<"GetBannerByID">>)

CachedRepository_GetBannerByID(c, db, id, fail, t) ==
    LET r == InMemoryCache_GetBanner(c, id, t)
        q == IF fail THEN [err |-> ErrBacking, value |-> Nil]
             ELSE Repository_GetBannerByID(db, id)
    IN  IF r.found
        THEN Outcome(r.c, db, NoErr, r.value, TRUE, <<>>)
        ELSE IF q.err # NoErr
        THEN Outcome(r.c, db, q.err, Nil, FALSE, <<"GetBannerByID">>)
        ELSE Outcome(InMemoryCache_SetBanner(r.c, q.value, DefaultBannerTTL, t),
                     db, NoErr, q.value, FALSE, <<"GetBannerByID">>)

CachedRepository_UpdateBanner(c, db, banner, fail, t) ==
    LET q == IF fail THEN [err |-> ErrBacking, db |-> db]
             ELSE Repository_UpdateBanner(db, banner)
    IN  IF q.err # NoErr
        THEN Outcome(c, db, q.err, Nil, FALSE, <<"UpdateBanner">>)
        ELSE LET c1 == InMemoryCache_SetBanner(c, banner, DefaultBannerTTL, t)
                 c2 == InMemoryCache_InvalidateBanner(c1, banner.ID)
             IN  Outcome(c2, q.db, NoErr, Nil, FALSE, <<"UpdateBanner">>)

\* Mutant: the cascade runs before the error of the delete is looked at.
CachedRepository_DeleteBanner_InvalidatesFirst(c, db, id, fail, t) ==
    LET q == IF fail THEN [err |-> ErrBacking, db |-> db]
             ELSE Repository_DeleteBanner(db, id)
    IN  Outcome(InMemoryCache_InvalidateBanner(c, id), q.db, q.err, Nil, FALSE,
                <<"DeleteBanner">>)

CachedRepository_DeleteBanner(c, db, id, fail, t) ==
    LET q == IF fail THEN [err |-> ErrBacking, db |-> db]
             ELSE Repository_DeleteBanner(db, id)
    IN  IF q.err # NoErr
        THEN Outcome(c, db, q.err, Nil, FALSE, <<"DeleteBanner">>)
        ELSE Outcome(InMemoryCache_InvalidateBanner(c, id), q.db, NoErr, Nil, FALSE,
                     <<"DeleteBanner">>)

CachedRepository_CreateClick(c, db, bannerID, fail, t) ==
    LET q == IF fail THEN [err |-> ErrBacking, db |-> db]
             ELSE Repository_CreateClick(db, bannerID)
    IN  IF q.err # NoErr
        THEN Outcome(c, db, q.err, Nil, FALSE, <<"CreateClick">>)
        ELSE LET c1 == InMemoryCache_InvalidateClickStats(c, bannerID)
                 c2 == InMemoryCache_InvalidateBannerWithStats(c1, bannerID)
                 c3 == InMemoryCache_InvalidateTopBanners(c2)
             IN  Outcome(c3, q.db, NoErr, Nil, FALSE, <<"CreateClick">>)

\* failGet: the lookup of the click fails; failDelete: the delete fails.
CachedRepository_DeleteClick(c, db, id, failGet, failDelete, t) ==
    LET g == IF failGet THEN [err |-> ErrBacking, value |-> Nil]
             ELSE Repository_GetClickByID(db, id)
        q == IF failDelete THEN [err |-> ErrBacking, db |-> db]
             ELSE Repository_DeleteClick(db, id)
    IN  IF g.err # NoErr
        THEN Outcome(c, db, g.err, Nil, FALSE, <<"GetClickByID">>)
        ELSE IF q.err # NoErr
        THEN Outcome(c, db, q.err, Nil, FALSE, <<"GetClickByID", "DeleteClick">>)
        ELSE LET c1 == InMemoryCache_InvalidateClickStats(c, g.value.BannerID)
                 c2 == InMemoryCache_InvalidateBannerWithStats(c1, g.value.BannerID)
                 c3 == InMemoryCache_InvalidateTopBanners(c2)
             IN  Outcome(c3, q.db, NoErr, Nil, FALSE, <<"GetClickByID", "DeleteClick">>)

CachedRepository_GetClickStats(c, db, bannerID, fail, t) ==
    LET r == InMemoryCache_GetClickStats(c, bannerID, t)
        stats == Repository_GetClickStats(db, bannerID)
    IN  IF r.found
        THEN Outcome(r.c, db, NoErr, r.value, TRUE, <<>>)
        ELSE IF fail
        THEN Outcome(r.c, db, ErrBacking, Nil, FALSE, <<"GetClickStats">>)
        ELSE Outcome(InMemoryCache_SetClickStats(r.c, bannerID, stats, DefaultClickStatsTTL, t),
                     db, NoErr, stats, FALSE, <<"GetClickStats">>)

\* banners: the list the backing store returns when the query does not fail.
CachedRepository_GetTopBanners(c, db, limit, banners, fail, t) ==
    LET r == InMemoryCache_GetTopBanners(c, limit, t)
    IN  IF r.found
        THEN Outcome(r.c, db, NoErr, r.value, TRUE, <<>>)
        ELSE IF fail
        THEN Outcome(r.c, db, ErrBacking, Nil, FALSE, <<"GetTopBanners">>)
        ELSE Outcome(InMemoryCache_SetTopBanners(r.c, limit, banners, DefaultTopBannersTTL, t),
                     db, NoErr, banners, FALSE, <<"GetTopBanners">>)

\* Mutant: the read looks into the cache first and counts a miss.
PassThrough_CountsMiss(c, db, call, result, fail) ==
    Outcome([c EXCEPT !.stats.Misses = @ + 1], db,
            IF fail THEN ErrBacking ELSE result.err,
            IF fail THEN Nil ELSE result.value, FALSE, <<call>>)

\* return r.repo.<call>(...): the handlers that delegate to the repository.
\* result is what the query yields when the call does not fail on its own.
PassThrough(c, db, call, result, fail) ==
    Outcome(c, db, IF fail THEN ErrBacking ELSE result.err,
            IF fail THEN Nil ELSE result.value, FALSE, <<call>>)

CachedRepository_GetAllBanners(c, db, result, fail) ==
    PassThrough(c, db, "GetAllBanners", result, fail)

CachedRepository_GetBannerByName(c, db, result, fail) ==
    PassThrough(c, db, "GetBannerByName", result, fail)

CachedRepository_SearchBannersByName(c, db, result, fail) ==
    PassThrough(c, db, "SearchBannersByName", result, fail)

CachedRepository_GetBannersWithClickCount(c, db, result, fail) ==
    PassThrough(c, db, "GetBannersWithClickCount", result, fail)

CachedRepository_GetClickByID(c, db, result, fail) ==
    PassThrough(c, db, "GetClickByID", result, fail)

CachedRepository_GetAllClicks(c, db, result, fail) ==
    PassThrough(c, db, "GetAllClicks", result, fail)

CachedRepository_GetClicksByBannerID(c, db, result, fail) ==
    PassThrough(c, db, "GetClicksByBannerID", result, fail)

CachedRepository_GetClicksByDateRange(c, db, result, fail) ==
    PassThrough(c, db, "GetClicksByDateRange", result, fail)

CachedRepository_GetClicksByBannerIDAndDateRange(c, db, result, fail) ==
    PassThrough(c, db, "GetClicksByBannerIDAndDateRange", result, fail)

CachedRepository_GetClicksByHour(c, db, result, fail) ==
    PassThrough(c, db, "GetClicksByHour", result, fail)

CachedRepository_GetClicksByDay(c, db, result, fail) ==
    PassThrough(c, db, "GetClicksByDay", result, fail)

CachedRepository_ClearCache(c, db) ==
    Outcome(InMemoryCache_Clear(c), db, NoErr, Nil, FALSE, <<>>)

CachedRepository_InvalidateBannerCache(c, db, bannerID) ==
    Outcome(InMemoryCache_InvalidateBanner(c, bannerID), db, NoErr, Nil, FALSE, <<>>)

CachedRepository_GetCacheStats(c, db) ==
    Outcome(c, db, NoErr, InMemoryCache_Stats(c), FALSE, <<>>)

\* The two loops of WarmCache over the loaded banners.
RECURSIVE WarmBanners(_, _, _)
WarmBanners(c, banners, t) ==
    IF banners = <<>> THEN c
    ELSE WarmBanners(InMemoryCache_SetBanner(c, Head(banners), DefaultBannerTTL, t),
                     Tail(banners), t)

RECURSIVE WarmClickStats(_, _, _, _, _)
WarmClickStats(c, db, banners, failStats, t) ==
    IF banners = <<>> THEN c
    ELSE LET id == Head(banners).ID
             c1 == IF id \in failStats THEN c
                   ELSE InMemoryCache_SetClickStats(c, id, Repository_GetClickStats(db, id),
                                                    DefaultClickStatsTTL, t)
         IN  WarmClickStats(c1, db, Tail(banners), failStats, t)

\* Mutant: the warm-up also stores a banner-with-stats entry per banner.
CachedRepository_WarmCache_StoresBannerStats(c, db, failAll, failStats, failTop, top, t) ==
    IF failAll
    THEN Outcome(c, db, ErrBacking, Nil, FALSE, <<"GetAllBanners">>)
    ELSE LET banners == Repository_GetAllBanners(db)
             c1 == WarmBanners(c, banners, t)
             c2 == WarmClickStats(c1, db, banners, failStats, t)
             c3 == IF banners = <<>> THEN c2
                   ELSE InMemoryCache_SetBannerWithStats(
                            c2, Head(banners).ID,
                            [type |-> "BannerWithStats", Banner |-> Head(banners),
                             ClickCount |-> ClickCount(db, Head(banners).ID)],
                            DefaultBannerStatsTTL, t)
         IN  Outcome(c3, db, NoErr, Nil, FALSE,
                     <<"GetAllBanners">> \o [i \in 1..Len(banners) |-> "GetClickStats"]
                         \o <<"GetTopBanners">>)

\* Mutant: a failed stats load aborts the warm-up with its error.
CachedRepository_WarmCache_AbortsOnStats(c, db, failAll, failStats, failTop, top, t) ==
    IF failAll
    THEN Outcome(c, db, ErrBacking, Nil, FALSE, <<"GetAllBanners">>)
    ELSE LET banners == Repository_GetAllBanners(db)
             c1 == WarmBanners(c, banners, t)
         IN  IF failStats # {}
             THEN Outcome(c1, db, ErrBacking, Nil, FALSE, <<"GetAllBanners", "GetClickStats">>)
             ELSE LET c2 == WarmClickStats(c1, db, banners, failStats, t)
                      c3 == IF failTop THEN c2
                            ELSE InMemoryCache_SetTopBanners(c2, WarmLimit, top,
                                                             DefaultTopBannersTTL, t)
                  IN  Outcome(c3, db, NoErr, Nil, FALSE,
                              <<"GetAllBanners">>
                                  \o [i \in 1..Len(banners) |-> "GetClickStats"]
                                  \o <<"GetTopBanners">>)

\* failAll: the load of all banners fails; failStats: the ids whose stats load
\* fails; failTop: the load of the top banners fails; top: the top-banners
\* list the backing store returns otherwise.
CachedRepository_WarmCache(c, db, failAll, failStats, failTop, top, t) ==
    IF failAll
    THEN Outcome(c, db, ErrBacking, Nil, FALSE, <<"GetAllBanners">>)
    ELSE LET banners == Repository_GetAllBanners(db)
             c1 == WarmBanners(c, banners, t)
             c2 == WarmClickStats(c1, db, banners, failStats, t)
             c3 == IF failTop THEN c2
                   ELSE InMemoryCache_SetTopBanners(c2, WarmLimit, top, DefaultTopBannersTTL, t)
         IN  Outcome(c3, db, NoErr, Nil, FALSE,
                     <<"GetAllBanners">> \o [i \in 1..Len(banners) |-> "GetClickStats"]
                         \o <<"GetTopBanners">>)

\* ------------------------------------------------------------------------
\* The state machine
\* ------------------------------------------------------------------------

\* What the caller of the latest operation saw: the operation and its
\* argument, the error and the value returned, whether the cache lookup hit,
\* the backing-store calls made, the instant of the call, and the keys the
\* operation removed from the table.
Last(op, arg, out) ==
    [op |-> op, arg |-> arg, err |-> out.err, ret |-> out.ret, found |-> out.found,
     calls |-> out.calls, at |-> now,
     removed |-> (DOMAIN cache.items) \ (DOMAIN out.c.items)]

\* One banner and one click of it are in the database when the cache is built.
InitRepo ==
    [banners |-> (1 :> "a"), clicks |-> (1 :> 1), bannerSeq |-> 1, clickSeq |-> 1]

Init ==
    /\ cache = NewInMemoryCache
    /\ repo = InitRepo
    /\ now = 0
    /\ ops = 0
    /\ last = [op |-> "NewCachedRepository", arg |-> Nil, err |-> NoErr, ret |-> Nil,
               found |-> FALSE, calls |-> <<>>, at |-> 0, removed |-> {}]
    /\ setLog = <<>>
    /\ mu = [writer |-> "none", readers |-> {}]
    /\ stopChan = "open"
    /\ cleanup = [running |-> TRUE, C |-> 0]
    /\ reaper = "select"
    /\ inflight = [g \in Goroutines |-> Idle]
    /\ panicked = FALSE
    /\ issued = [gets |-> 0, sets |-> 0, stops |-> 0, overlap |-> FALSE]

\* A handler call completes with outcome out.  In the actions below, the
\* outcome of a backing-store call the handler does not reach is not an input:
\* fail is FALSE on a cache hit, failDelete after a failed lookup.
Complete(op, arg, out) ==
    /\ ops < MaxOps
    /\ cache' = out.c
    /\ repo' = out.db
    /\ last' = Last(op, arg, out)
    /\ ops' = ops + 1
    /\ UNCHANGED <<now, setLog, conc>>

\* The clock advances to instant t.
Tick(t) ==
    /\ t > now
    /\ now' = t
    /\ UNCHANGED <<cache, repo, ops, last, setLog, conc>>

CreateBanner(name, fail) ==
    /\ repo.bannerSeq + 1 \in BannerIDs
    /\ Complete("CreateBanner", name,
                CachedRepository_CreateBanner(cache, repo, name, fail, now))

GetBannerByID(id, fail) ==
    /\ fail => ~InMemoryCache_GetBanner(cache, id, now).found
    /\ Complete("GetBannerByID", id, CachedRepository_GetBannerByID(cache, repo, id, fail, now))

UpdateBanner(id, name, fail) ==
    Complete("UpdateBanner", Banner(id, name),
             CachedRepository_UpdateBanner(cache, repo, Banner(id, name), fail, now))

DeleteBanner(id, fail) ==
    Complete("DeleteBanner", id, CachedRepository_DeleteBanner(cache, repo, id, fail, now))

CreateClick(bannerID, fail) ==
    /\ repo.clickSeq + 1 \in ClickIDs
    /\ Complete("CreateClick", bannerID,
                CachedRepository_CreateClick(cache, repo, bannerID, fail, now))

DeleteClick(id, failGet, failDelete) ==
    /\ failDelete => ~failGet
    /\ Complete("DeleteClick", id,
             CachedRepository_DeleteClick(cache, repo, id, failGet, failDelete, now))

GetClickStats(bannerID, fail) ==
    /\ fail => ~InMemoryCache_GetClickStats(cache, bannerID, now).found
    /\ Complete("GetClickStats", bannerID,
             CachedRepository_GetClickStats(cache, repo, bannerID, fail, now))

GetTopBanners(limit, fail) ==
    /\ fail => ~InMemoryCache_GetTopBanners(cache, limit, now).found
    /\ \E banners \in Repository_GetTopBanners(repo, limit) :
        Complete("GetTopBanners", limit,
                 CachedRepository_GetTopBanners(cache, repo, limit, banners, fail, now))

ClearCache == Complete("ClearCache", Nil, CachedRepository_ClearCache(cache, repo))

InvalidateBannerCache(bannerID) ==
    Complete("InvalidateBannerCache", bannerID,
             CachedRepository_InvalidateBannerCache(cache, repo, bannerID))

WarmCache(failAll, failStats, failTop) ==
    /\ failAll => (failStats = {} /\ ~failTop)
    /\ \E top \in Repository_GetTopBanners(repo, WarmLimit) :
        Complete("WarmCache",
                 [failAll |-> failAll, failStats |-> failStats, failTop |-> failTop],
                 CachedRepository_WarmCache(cache, repo, failAll, failStats, failTop, top, now))

\* Direct calls of the facade by an owner of the cache (GetCache()).
SetBannerWithStats(id) ==
    /\ id \in DOMAIN repo.banners
    /\ LET stats == [type |-> "BannerWithStats", Banner |-> Banner(id, repo.banners[id]),
                     ClickCount |-> ClickCount(repo, id)]
       IN  Complete("SetBannerWithStats", id,
                    Outcome(InMemoryCache_SetBannerWithStats(cache, id, stats,
                                                             DefaultBannerStatsTTL, now),
                            repo, NoErr, Nil, FALSE, <<>>))

GetBannerWithStats(id) ==
    LET r == InMemoryCache_GetBannerWithStats(cache, id, now)
    IN  Complete("GetBannerWithStats", id, Outcome(r.c, repo, NoErr, r.value, r.found, <<>>))

InvalidateTopBanners ==
    Complete("InvalidateTopBanners", Nil,
             Outcome(InMemoryCache_InvalidateTopBanners(cache), repo, NoErr, Nil, FALSE, <<>>))

RepoNext ==
    \/ \E name \in Names, fail \in BOOLEAN : CreateBanner(name, fail)
    \/ \E id \in BannerIDs, fail \in BOOLEAN : GetBannerByID(id, fail)
    \/ \E id \in BannerIDs, name \in Names, fail \in BOOLEAN : UpdateBanner(id, name, fail)
    \/ \E id \in BannerIDs, fail \in BOOLEAN : DeleteBanner(id, fail)
    \/ \E id \in BannerIDs, fail \in BOOLEAN : CreateClick(id, fail)
    \/ \E id \in ClickIDs, failGet, failDelete \in BOOLEAN : DeleteClick(id, failGet, failDelete)
    \/ \E id \in BannerIDs, fail \in BOOLEAN : GetClickStats(id, fail)
    \/ \E limit \in Limits, fail \in BOOLEAN : GetTopBanners(limit, fail)
    \/ ClearCache
    \/ \E id \in BannerIDs : InvalidateBannerCache(id)
    \/ \E failAll, failTop \in BOOLEAN, failStats \in SUBSET (DOMAIN repo.banners) :
           WarmCache(failAll, failStats, failTop)

FacadeNext ==
    \/ \E id \in BannerIDs : SetBannerWithStats(id)
    \/ \E id \in BannerIDs : GetBannerWithStats(id)
    \/ InvalidateTopBanners

\* ------------------------------------------------------------------------
\* The Cache Store on its own: get, set and delete called with the keys the
\* facade builds, any value and any TTL
\* ------------------------------------------------------------------------

StoreKeys == {BannerKey(1), BannerKey(2), TopBannersKey(10)}

StoreValues == {Banner(1, "a"), Banner(1, "b")}

StoreComplete(op, arg, out, log) ==
    /\ ops < MaxOps
    /\ cache' = out.c
    /\ last' = Last(op, arg, out)
    /\ ops' = ops + 1
    /\ setLog' = log
    /\ UNCHANGED <<repo, now, conc>>

Get(key) ==
    LET r == get(cache, key, now)
    IN  StoreComplete("get", key, Outcome(r.c, repo, NoErr, r.value, r.found, <<>>), setLog)

Set(key, value, ttl) ==
    StoreComplete("set", [key |-> key, value |-> value, ttl |-> ttl],
                  Outcome(set(cache, key, value, ttl, now), repo, NoErr, Nil, FALSE, <<>>),
                  MapStore(setLog, key, [at |-> now, ttl |-> ttl, value |-> value]))

Delete(key) ==
    StoreComplete("delete", key,
                  Outcome(delete(cache, key), repo, NoErr, Nil, FALSE, <<>>), setLog)

StoreNext ==
    \/ \E key \in StoreKeys : Get(key)
    \/ \E key \in StoreKeys, value \in StoreValues, ttl \in StoreTTLs : Set(key, value, ttl)
    \/ \E key \in StoreKeys : Delete(key)
    \/ \E t \in StoreInstants : Tick(t)

SpecStore == Init /\ [][StoreNext]_vars

\* ------------------------------------------------------------------------
\* The Cache Store under concurrency: goroutines inside get, set and Stop,
\* the ticker and the cleanupExpired goroutine, one step per lock region
\* ------------------------------------------------------------------------

ConcKeys == {BannerKey(1), BannerKey(2)}

ConcValue == Banner(1, "a")

\* A goroutine starts a call: the calls are counted, and so is the fact that
\* a get or set started while a get or set of another key was in flight.
Issue(g, kind, key) ==
    /\ ~panicked
    /\ inflight[g].pc = "idle"
    /\ ops < MaxOps
    /\ ops' = ops + 1
    /\ issued' = [issued EXCEPT
                    ![kind] = @ + 1,
                    !.overlap = @ \/ /\ kind # "stops"
                                     /\ \E h \in Goroutines :
                                            /\ inflight[h].pc \notin {"idle", "stop_close"}
                                            /\ inflight[h].key # key]

\* A goroutine inside a call takes its next step.
Step(g, pc) == ~panicked /\ inflight[g].pc = pc

\* get: c.mu.RLock()
GetRLock(g, key) ==
    /\ Issue(g, "gets", key)
    /\ CanRLock(mu)
    /\ mu' = [mu EXCEPT !.readers = @ \cup {g}]
    /\ inflight' = [inflight EXCEPT ![g] = [Idle EXCEPT !.pc = "get_read", !.key = key]]
    /\ UNCHANGED <<cache, repo, now, last, setLog, stopChan, cleanup, reaper, panicked>>

\* get: item, exists := c.items[key]; c.mu.RUnlock()
GetRead(g) ==
    /\ Step(g, "get_read")
    /\ LET key == inflight[g].key
           exists == key \in DOMAIN cache.items
       IN  inflight' = [inflight EXCEPT ![g].pc = "get_check",
                                        ![g].exists = exists,
                                        ![g].item = IF exists THEN cache.items[key] ELSE Nil]
    /\ mu' = [mu EXCEPT !.readers = @ \ {g}]
    /\ UNCHANGED <<cache, repo, now, ops, last, setLog, stopChan, cleanup, reaper,
                   panicked, issued>>

\* get: if !exists ... if item.IsExpired() ..., outside the lock
GetCheck(g) ==
    /\ Step(g, "get_check")
    /\ inflight' = [inflight EXCEPT ![g].pc = "get_lock",
                                    ![g].path = IF ~inflight[g].exists THEN "miss"
                                                ELSE IF IsExpired(inflight[g].item, now)
                                                THEN "expired" ELSE "hit"]
    /\ UNCHANGED <<cache, repo, now, ops, last, setLog, mu, stopChan, cleanup, reaper,
                   panicked, issued>>

\* get: c.mu.Lock(), and the load of the counters that the ++ starts with
GetLock(g) ==
    /\ Step(g, "get_lock")
    /\ CanLock(mu)
    /\ mu' = [mu EXCEPT !.writer = g]
    /\ inflight' = [inflight EXCEPT ![g].pc = "get_update", ![g].tmp = cache.stats]
    /\ UNCHANGED <<cache, repo, now, ops, last, setLog, stopChan, cleanup, reaper,
                   panicked, issued>>

\* get: the store of the counters (and delete(c.items, key) for an expired
\* item); c.mu.Unlock(); return
GetUpdate(g) ==
    /\ Step(g, "get_update")
    /\ LET l == inflight[g]
       IN  cache' =
             IF l.path = "miss"
             THEN [cache EXCEPT !.stats.Misses = l.tmp.Misses + 1]
             ELSE IF l.path = "expired"
             THEN [items |-> MapDelete(cache.items, l.key),
                   stats |-> [cache.stats EXCEPT !.Expirations = l.tmp.Expirations + 1,
                                                 !.Misses = l.tmp.Misses + 1]]
             ELSE [cache EXCEPT !.stats.Hits = l.tmp.Hits + 1]
    /\ mu' = [mu EXCEPT !.writer = "none"]
    /\ inflight' = [inflight EXCEPT ![g] = Idle]
    /\ UNCHANGED <<repo, now, ops, last, setLog, stopChan, cleanup, reaper, panicked, issued>>

\* set: c.mu.Lock(), and the load of the counters that the ++ starts with
SetLock(g, key, ttl) ==
    /\ Issue(g, "sets", key)
    /\ CanLock(mu)
    /\ mu' = [mu EXCEPT !.writer = g]
    /\ inflight' = [inflight EXCEPT ![g] = [Idle EXCEPT !.pc = "set_update", !.key = key,
                                                        !.ttl = ttl, !.tmp = cache.stats]]
    /\ UNCHANGED <<cache, repo, now, last, setLog, stopChan, cleanup, reaper, panicked>>

\* set: c.items[key] = &CacheItem{...}; the store of c.stats.Sets; Unlock
SetUpdate(g) ==
    /\ Step(g, "set_update")
    /\ LET l == inflight[g]
       IN  cache' = [items |-> set(cache, l.key, ConcValue, l.ttl, now).items,
                     stats |-> [cache.stats EXCEPT !.Sets = l.tmp.Sets + 1]]
    /\ mu' = [mu EXCEPT !.writer = "none"]
    /\ inflight' = [inflight EXCEPT ![g] = Idle]
    /\ UNCHANGED <<repo, now, ops, last, setLog, stopChan, cleanup, reaper, panicked, issued>>

\* Stop: c.cleanup.Stop()
StopTicker(g) ==
    /\ Issue(g, "stops", <<>>)
    /\ cleanup' = [cleanup EXCEPT !.running = FALSE]
    /\ inflight' = [inflight EXCEPT ![g] = [Idle EXCEPT !.pc = "stop_close"]]
    /\ UNCHANGED <<cache, repo, now, last, setLog, mu, stopChan, reaper, panicked>>

\* Stop: close(c.stopChan); closing a closed channel panics
StopClose(g) ==
    /\ Step(g, "stop_close")
    /\ stopChan' = "closed"
    /\ panicked' = (stopChan = "closed")
    /\ inflight' = [inflight EXCEPT ![g] = Idle]
    /\ UNCHANGED <<cache, repo, now, ops, last, setLog, mu, cleanup, reaper, issued>>

\* The ticker sends a tick on c.cleanup.C, a channel with a buffer of one: a
\* tick that finds the buffer full is dropped.
TickerFire ==
    /\ ~panicked
    /\ cleanup.running
    /\ cleanup.C = 0
    /\ cleanup' = [cleanup EXCEPT !.C = 1]
    /\ UNCHANGED <<cache, repo, now, ops, last, setLog, mu, stopChan, reaper, inflight,
                   panicked, issued>>

\* cleanupExpired: the select takes one of the cases that can proceed.
ReaperSelect ==
    /\ ~panicked
    /\ reaper = "select"
    /\ \E case \in SelectCases(cleanup, stopChan) :
           IF case = "tick"
           THEN reaper' = "lock" /\ cleanup' = [cleanup EXCEPT !.C = 0]
           ELSE reaper' = "done" /\ cleanup' = cleanup
    /\ UNCHANGED <<cache, repo, now, ops, last, setLog, mu, stopChan, inflight,
                   panicked, issued>>

\* cleanupExpired: c.mu.Lock()
ReaperLock ==
    /\ ~panicked
    /\ reaper = "lock"
    /\ CanLock(mu)
    /\ mu' = [mu EXCEPT !.writer = "cleanupExpired"]
    /\ reaper' = "sweep"
    /\ UNCHANGED <<cache, repo, now, ops, last, setLog, stopChan, cleanup, inflight,
                   panicked, issued>>

\* cleanupExpired: the loop over c.items; c.mu.Unlock()
ReaperSweep ==
    /\ ~panicked
    /\ reaper = "sweep"
    /\ cache' = cleanupExpired_sweep(cache, now)
    /\ mu' = [mu EXCEPT !.writer = "none"]
    /\ reaper' = "select"
    /\ UNCHANGED <<repo, now, ops, last, setLog, stopChan, cleanup, inflight,
                   panicked, issued>>

ConcNext ==
    \/ \E g \in Goroutines, key \in ConcKeys : GetRLock(g, key)
    \/ \E g \in Goroutines : GetRead(g)
    \/ \E g \in Goroutines : GetCheck(g)
    \/ \E g \in Goroutines : GetLock(g)
    \/ \E g \in Goroutines : GetUpdate(g)
    \/ \E g \in Goroutines, key \in ConcKeys, ttl \in ConcTTLs : SetLock(g, key, ttl)
    \/ \E g \in Goroutines : SetUpdate(g)
    \/ \E g \in Goroutines : StopTicker(g)
    \/ \E g \in Goroutines : StopClose(g)
    \/ TickerFire
    \/ ReaperSelect
    \/ ReaperLock
    \/ ReaperSweep
    \/ \E t \in Instants : Tick(t)

SpecConc == Init /\ [][ConcNext]_vars

\* ------------------------------------------------------------------------
\* The Cache Store under concurrency, every mutation included: get, set with
\* a value of the caller's choice, delete, Clear, InvalidateTopBanners, the
\* reaper and Stop
\* ------------------------------------------------------------------------

AtomicKeys == {BannerKey(1), TopBannersKey(10)}

AtomicValues == {Banner(1, "a"), Banner(1, "b")}

\* A goroutine inside set, delete, Clear or InvalidateTopBanners, holding the
\* write lock: its arguments and the counters it loaded.
LockedFrame(pc, key, value, ttl) ==
    [pc |-> pc, key |-> key, ttl |-> ttl, item |-> Nil, exists |-> FALSE,
     path |-> "none", tmp |-> cache.stats, value |-> value]

\* A goroutine starts a call that takes the write lock first: c.mu.Lock().
EnterLocked(g, frame) ==
    /\ ~panicked
    /\ inflight[g].pc = "idle"
    /\ ops < MaxOps
    /\ ops' = ops + 1
    /\ CanLock(mu)
    /\ mu' = [mu EXCEPT !.writer = g]
    /\ inflight' = [inflight EXCEPT ![g] = frame]
    /\ UNCHANGED <<cache, repo, now, last, setLog, stopChan, cleanup, reaper, panicked,
                   issued>>

\* The body of a call that holds the write lock, then c.mu.Unlock() and return.
LeaveLocked(g, pc, c, log) ==
    /\ Step(g, pc)
    /\ cache' = c
    /\ setLog' = log
    /\ mu' = Unlock(mu)
    /\ inflight' = [inflight EXCEPT ![g] = Idle]
    /\ UNCHANGED <<repo, now, ops, last, stopChan, cleanup, reaper, panicked, issued>>

\* set(key, value, ttl): c.mu.Lock()
SetValueLock(g, key, value, ttl) ==
    EnterLocked(g, LockedFrame("setv_update", key, value, ttl))

\* set: c.items[key] = &CacheItem{...}; c.stats.Sets++; Unlock. The log keeps
\* the arguments and the instant of the last set of each key.
SetValueUpdate(g) ==
    LET l == inflight[g]
    IN  LeaveLocked(g, "setv_update",
                    [items |-> set(cache, l.key, l.value, l.ttl, now).items,
                     stats |-> [cache.stats EXCEPT !.Sets = l.tmp.Sets + 1]],
                    MapStore(setLog, l.key, [at |-> now, ttl |-> l.ttl, value |-> l.value]))

\* delete(key): c.mu.Lock()
DeleteLock(g, key) == EnterLocked(g, LockedFrame("delete_update", key, Nil, 0))

\* delete: if _, exists := c.items[key]; exists { delete; c.stats.Deletes++ }
DeleteUpdate(g) ==
    LET l == inflight[g]
    IN  LeaveLocked(g, "delete_update",
                    [items |-> delete(cache, l.key).items,
                     stats |-> IF l.key \in DOMAIN cache.items
                               THEN [cache.stats EXCEPT !.Deletes = l.tmp.Deletes + 1]
                               ELSE cache.stats],
                    setLog)

\* Clear: c.mu.Lock()
ClearLock(g) == EnterLocked(g, LockedFrame("clear_update", <<>>, Nil, 0))

\* Clear: c.items = make(map[string]*CacheItem); Unlock
ClearUpdate(g) == LeaveLocked(g, "clear_update", InMemoryCache_Clear(cache), setLog)

\* InvalidateTopBanners: c.mu.Lock()
InvalidateTopBannersLock(g) == EnterLocked(g, LockedFrame("invtop_update", <<>>, Nil, 0))

\* InvalidateTopBanners: the loop over c.items; Unlock
InvalidateTopBannersUpdate(g) ==
    LeaveLocked(g, "invtop_update", InMemoryCache_InvalidateTopBanners(cache), setLog)

AtomicNext ==
    \/ \E g \in Goroutines, key \in AtomicKeys : GetRLock(g, key)
    \/ \E g \in Goroutines : GetRead(g)
    \/ \E g \in Goroutines : GetCheck(g)
    \/ \E g \in Goroutines : GetLock(g)
    \/ \E g \in Goroutines : GetUpdate(g)
    \/ \E g \in Goroutines, key \in AtomicKeys, value \in AtomicValues, ttl \in ConcTTLs :
           SetValueLock(g, key, value, ttl)
    \/ \E g \in Goroutines : SetValueUpdate(g)
    \/ \E g \in Goroutines, key \in AtomicKeys : DeleteLock(g, key)
    \/ \E g \in Goroutines : DeleteUpdate(g)
    \/ \E g \in Goroutines : ClearLock(g)
    \/ \E g \in Goroutines : ClearUpdate(g)
    \/ \E g \in Goroutines : InvalidateTopBannersLock(g)
    \/ \E g \in Goroutines : InvalidateTopBannersUpdate(g)
    \/ \E g \in Goroutines : StopTicker(g)
    \/ \E g \in Goroutines : StopClose(g)
    \/ TickerFire
    \/ ReaperSelect
    \/ ReaperLock
    \/ ReaperSweep
    \/ \E t \in Instants : Tick(t)

SpecAtomic == Init /\ [][AtomicNext]_vars

\* The scheduler lets every goroutine that can run make progress: a goroutine
\* holding the lock reaches its unlock, the runtime keeps delivering ticks
\* while the ticker runs, the reaper goroutine takes its steps, and a
\* goroutine waiting in Lock() gets the lock if it is free again and again.
Fairness ==
    /\ WF_vars(TickerFire)
    /\ WF_vars(ReaperSelect)
    /\ SF_vars(ReaperLock)
    /\ WF_vars(ReaperSweep)
    /\ \A g \in Goroutines :
           /\ WF_vars(GetRead(g))
           /\ WF_vars(GetUpdate(g))
           /\ WF_vars(SetUpdate(g))
           /\ WF_vars(StopClose(g))

SpecConcLive == Init /\ [][ConcNext]_vars /\ Fairness

\* ------------------------------------------------------------------------
\* The reads that bypass the cache, called on caches that WarmCache, the
\* cached reads and the writes have filled
\* ------------------------------------------------------------------------

\* The name patterns of SearchBannersByName.
NamePatterns == Names \cup {""}

GetAllBanners(fail) ==
    Complete("GetAllBanners", Nil,
             CachedRepository_GetAllBanners(
                 cache, repo, [err |-> NoErr, value |-> Repository_GetAllBanners(repo)], fail))

GetBannerByName(name, fail) ==
    \E result \in Repository_GetBannerByName(repo, name) :
        Complete("GetBannerByName", name,
                 CachedRepository_GetBannerByName(cache, repo, result, fail))

SearchBannersByName(namePattern, fail) ==
    \E result \in Repository_SearchBannersByName(repo, namePattern) :
        Complete("SearchBannersByName", namePattern,
                 CachedRepository_SearchBannersByName(cache, repo, result, fail))

GetBannersWithClickCount(fail) ==
    \E result \in Repository_GetBannersWithClickCount(repo) :
        Complete("GetBannersWithClickCount", Nil,
                 CachedRepository_GetBannersWithClickCount(cache, repo, result, fail))

GetClickByID(id, fail) ==
    Complete("GetClickByID", id,
             CachedRepository_GetClickByID(cache, repo, Repository_GetClickByID(repo, id), fail))

GetAllClicks(fail) ==
    \E result \in Repository_GetAllClicks(repo) :
        Complete("GetAllClicks", Nil, CachedRepository_GetAllClicks(cache, repo, result, fail))

GetClicksByBannerID(bannerID, fail) ==
    \E result \in Repository_GetClicksByBannerID(repo, bannerID) :
        Complete("GetClicksByBannerID", bannerID,
                 CachedRepository_GetClicksByBannerID(cache, repo, result, fail))

GetClicksByDateRange(fail) ==
    \E result \in Repository_GetClicksByDateRange(repo) :
        Complete("GetClicksByDateRange", Nil,
                 CachedRepository_GetClicksByDateRange(cache, repo, result, fail))

GetClicksByBannerIDAndDateRange(bannerID, fail) ==
    \E result \in Repository_GetClicksByBannerIDAndDateRange(repo, bannerID) :
        Complete("GetClicksByBannerIDAndDateRange", bannerID,
                 CachedRepository_GetClicksByBannerIDAndDateRange(cache, repo, result, fail))

GetClicksByHour(bannerID, fail) ==
    \E result \in Repository_GetClicksByHour(repo, bannerID) :
        Complete("GetClicksByHour", bannerID,
                 CachedRepository_GetClicksByHour(cache, repo, result, fail))

GetClicksByDay(bannerID, fail) ==
    \E result \in Repository_GetClicksByDay(repo, bannerID) :
        Complete("GetClicksByDay", bannerID,
                 CachedRepository_GetClicksByDay(cache, repo, result, fail))

BypassNext ==
    \/ \E fail \in BOOLEAN : GetAllBanners(fail)
    \/ \E name \in Names, fail \in BOOLEAN : GetBannerByName(name, fail)
    \/ \E namePattern \in NamePatterns, fail \in BOOLEAN :
           SearchBannersByName(namePattern, fail)
    \/ \E fail \in BOOLEAN : GetBannersWithClickCount(fail)
    \/ \E id \in ClickIDs, fail \in BOOLEAN : GetClickByID(id, fail)
    \/ \E fail \in BOOLEAN : GetAllClicks(fail)
    \/ \E id \in BannerIDs, fail \in BOOLEAN : GetClicksByBannerID(id, fail)
    \/ \E fail \in BOOLEAN : GetClicksByDateRange(fail)
    \/ \E id \in BannerIDs, fail \in BOOLEAN : GetClicksByBannerIDAndDateRange(id, fail)
    \/ \E id \in BannerIDs, fail \in BOOLEAN : GetClicksByHour(id, fail)
    \/ \E id \in BannerIDs, fail \in BOOLEAN : GetClicksByDay(id, fail)

\* The operations that fill the cache and the tables before a bypass read.
FillNext ==
    \/ \E name \in Names : CreateBanner(name, FALSE)
    \/ \E id \in BannerIDs : CreateClick(id, FALSE)
    \/ \E id \in BannerIDs : GetBannerByID(id, FALSE)
    \/ \E failTop \in BOOLEAN, failStats \in SUBSET (DOMAIN repo.banners) :
           WarmCache(FALSE, failStats, failTop)

SpecBypass == Init /\ [][BypassNext \/ FillNext \/ \E t \in Instants : Tick(t)]_vars

\* The Cached Repository alone: the operations of it that use the cache and
\* the bypass reads of banners, and no call of the facade or the store from
\* outside it.
RepositoryNext ==
    \/ RepoNext
    \/ \E fail \in BOOLEAN : GetAllBanners(fail)
    \/ \E fail \in BOOLEAN : GetBannersWithClickCount(fail)
    \/ \E t \in Instants : Tick(t)

SpecRepository == Init /\ [][RepositoryNext]_vars

\* ------------------------------------------------------------------------
\* Entries of another type: code of the package stores, with set, a value
\* under a key of a kind it does not belong to; then the reads of the
\* Cached Repository
\* ------------------------------------------------------------------------

TypedKeys == {BannerKey(1), BannerKey(2), ClickStatsKey(1), TopBannersKey(10)}

\* A value that the typed getter of the key's kind does not accept.
ForeignValue(key) ==
    IF key \in {BannerKey(1), BannerKey(2)}
    THEN [type |-> "ClickStats", BannerID |-> 1, TotalClicks |-> 0]
    ELSE Banner(1, "a")

TypedNext ==
    \/ \E key \in TypedKeys, ttl \in ConcTTLs : Set(key, ForeignValue(key), ttl)
    \/ \E id \in BannerIDs, fail \in BOOLEAN : GetBannerByID(id, fail)
    \/ \E id \in BannerIDs, fail \in BOOLEAN : GetClickStats(id, fail)
    \/ \E limit \in Limits, fail \in BOOLEAN : GetTopBanners(limit, fail)
    \/ \E t \in Instants : Tick(t)

SpecTyped == Init /\ [][TypedNext]_vars

\* ------------------------------------------------------------------------
\* The Cached Repository under concurrency: goroutines inside GetBannerByID,
\* GetClickStats and DeleteBanner of one banner, one step per lock region of
\* the cache and one per backing-store call
\* ------------------------------------------------------------------------

RaceIDs == {1}

\* The locals of a goroutine inside a handler: the handler and its id, the
\* key of the cache call it is in, what get read and decided, the value the
\* backing store returned, and the step of the InvalidateBanner cascade.
Frame(op, id, key, pc) ==
    [pc |-> pc, op |-> op, id |-> id, key |-> key, item |-> Nil, exists |-> FALSE,
     path |-> "none", value |-> Nil, stage |-> 0]

\* The goroutine g begins a call of a handler.
Begin(g) ==
    /\ inflight[g].pc = "idle"
    /\ ops < MaxOps
    /\ ops' = ops + 1

\* The handler returns to its caller.
Return(g, err, ret, found, calls) ==
    /\ inflight' = [inflight EXCEPT ![g] = Idle]
    /\ last' = [op |-> inflight[g].op, arg |-> inflight[g].id, err |-> err, ret |-> ret,
                found |-> found, calls |-> calls, at |-> now, removed |-> {}]

\* GetBannerByID, GetClickStats: r.cache.GetBanner(id) enters get; c.mu.RLock()
CallGetBannerByID(g, id) ==
    /\ Begin(g)
    /\ CanRLock(mu)
    /\ mu' = [mu EXCEPT !.readers = @ \cup {g}]
    /\ inflight' = [inflight EXCEPT
                      ![g] = Frame("GetBannerByID", id, BannerKey(id), "cache_read")]
    /\ UNCHANGED <<cache, repo, now, last, setLog, stopChan, cleanup, reaper, panicked, issued>>

CallGetClickStats(g, id) ==
    /\ Begin(g)
    /\ CanRLock(mu)
    /\ mu' = [mu EXCEPT !.readers = @ \cup {g}]
    /\ inflight' = [inflight EXCEPT
                      ![g] = Frame("GetClickStats", id, ClickStatsKey(id), "cache_read")]
    /\ UNCHANGED <<cache, repo, now, last, setLog, stopChan, cleanup, reaper, panicked, issued>>

\* get: item, exists := c.items[key]; c.mu.RUnlock()
CacheRead(g) ==
    /\ inflight[g].pc = "cache_read"
    /\ LET key == inflight[g].key
           exists == key \in DOMAIN cache.items
       IN  inflight' = [inflight EXCEPT ![g].pc = "cache_check",
                                        ![g].exists = exists,
                                        ![g].item = IF exists THEN cache.items[key] ELSE Nil]
    /\ mu' = [mu EXCEPT !.readers = @ \ {g}]
    /\ UNCHANGED <<cache, repo, now, ops, last, setLog, stopChan, cleanup, reaper,
                   panicked, issued>>

\* get: if !exists ... if item.IsExpired() ..., outside the lock
CacheCheck(g) ==
    /\ inflight[g].pc = "cache_check"
    /\ inflight' = [inflight EXCEPT ![g].pc = "cache_lock",
                                    ![g].path = IF ~inflight[g].exists THEN "miss"
                                                ELSE IF IsExpired(inflight[g].item, now)
                                                THEN "expired" ELSE "hit"]
    /\ UNCHANGED <<cache, repo, now, ops, last, setLog, mu, stopChan, cleanup, reaper,
                   panicked, issued>>

\* get: c.mu.Lock()
CacheLock(g) ==
    /\ inflight[g].pc = "cache_lock"
    /\ CanLock(mu)
    /\ mu' = [mu EXCEPT !.writer = g]
    /\ inflight' = [inflight EXCEPT ![g].pc = "cache_update"]
    /\ UNCHANGED <<cache, repo, now, ops, last, setLog, stopChan, cleanup, reaper,
                   panicked, issued>>

\* get: the counters (and delete(c.items, key) for an expired item);
\* c.mu.Unlock().  On a hit the handler returns the cached value; otherwise
\* it goes on to call the backing store.
CacheUpdate(g) ==
    /\ inflight[g].pc = "cache_update"
    /\ LET l == inflight[g]
       IN  /\ cache' =
                 IF l.path = "miss"
                 THEN [cache EXCEPT !.stats.Misses = @ + 1]
                 ELSE IF l.path = "expired"
                 THEN [items |-> MapDelete(cache.items, l.key),
                       stats |-> [cache.stats EXCEPT !.Expirations = @ + 1,
                                                     !.Misses = @ + 1]]
                 ELSE [cache EXCEPT !.stats.Hits = @ + 1]
           /\ IF l.path = "hit"
              THEN Return(g, NoErr, l.item.Value, TRUE, <<>>)
              ELSE /\ inflight' = [inflight EXCEPT ![g].pc = "repo_call"]
                   /\ last' = last
    /\ mu' = Unlock(mu)
    /\ UNCHANGED <<repo, now, ops, setLog, stopChan, cleanup, reaper, panicked, issued>>

\* DeleteBanner: the handler starts with the call of the backing store.
CallDeleteBanner(g, id) ==
    /\ Begin(g)
    /\ inflight' = [inflight EXCEPT ![g] = Frame("DeleteBanner", id, <<>>, "repo_call")]
    /\ UNCHANGED <<cache, repo, now, last, setLog, mu, stopChan, cleanup, reaper,
                   panicked, issued>>

\* The backing-store call of the handler returns (fail: with an error of its
\* own): r.repo.GetBannerByID(id), r.repo.GetClickStats(id),
\* r.repo.DeleteBanner(id).
BackingCall(g, fail) ==
    /\ inflight[g].pc = "repo_call"
    /\ LET l == inflight[g]
           q == IF fail THEN [err |-> ErrBacking, value |-> Nil, db |-> repo]
                ELSE IF l.op = "GetBannerByID"
                THEN [err |-> Repository_GetBannerByID(repo, l.id).err,
                      value |-> Repository_GetBannerByID(repo, l.id).value, db |-> repo]
                ELSE IF l.op = "GetClickStats"
                THEN [err |-> NoErr, value |-> Repository_GetClickStats(repo, l.id),
                      db |-> repo]
                ELSE [err |-> Repository_DeleteBanner(repo, l.id).err, value |-> Nil,
                      db |-> Repository_DeleteBanner(repo, l.id).db]
       IN  /\ repo' = q.db
           /\ IF q.err # NoErr
              THEN Return(g, q.err, Nil, FALSE, <<l.op>>)
              ELSE /\ inflight' = [inflight EXCEPT
                                     ![g].pc = IF l.op = "DeleteBanner" THEN "cascade_lock"
                                               ELSE "fill_lock",
                                     ![g].value = q.value,
                                     ![g].stage = IF l.op = "DeleteBanner" THEN 1 ELSE 0]
                   /\ last' = last
    /\ UNCHANGED <<cache, now, ops, setLog, mu, stopChan, cleanup, reaper, panicked, issued>>

\* r.cache.SetBanner / SetClickStats enters set; c.mu.Lock()
FillLock(g) ==
    /\ inflight[g].pc = "fill_lock"
    /\ CanLock(mu)
    /\ mu' = [mu EXCEPT !.writer = g]
    /\ inflight' = [inflight EXCEPT ![g].pc = "fill_update"]
    /\ UNCHANGED <<cache, repo, now, ops, last, setLog, stopChan, cleanup, reaper,
                   panicked, issued>>

\* set: the entry and the counter; c.mu.Unlock(); the handler returns the
\* value it fetched.
FillUpdate(g) ==
    /\ inflight[g].pc = "fill_update"
    /\ LET l == inflight[g]
       IN  /\ cache' = IF l.op = "GetBannerByID"
                       THEN InMemoryCache_SetBanner(cache, l.value, DefaultBannerTTL, now)
                       ELSE InMemoryCache_SetClickStats(cache, l.id, l.value,
                                                        DefaultClickStatsTTL, now)
           /\ Return(g, NoErr, l.value, FALSE, <<l.op>>)
    /\ mu' = Unlock(mu)
    /\ UNCHANGED <<repo, now, ops, setLog, stopChan, cleanup, reaper, panicked, issued>>

\* InvalidateBanner: the next of its four calls takes the lock (delete for
\* the first three, InvalidateTopBanners itself for the fourth).
CascadeLock(g) ==
    /\ inflight[g].pc = "cascade_lock"
    /\ CanLock(mu)
    /\ mu' = [mu EXCEPT !.writer = g]
    /\ inflight' = [inflight EXCEPT ![g].pc = "cascade_delete"]
    /\ UNCHANGED <<cache, repo, now, ops, last, setLog, stopChan, cleanup, reaper,
                   panicked, issued>>

\* InvalidateBanner: the call removes its entries and unlocks; after the
\* fourth call the handler returns nil.
CascadeDelete(g) ==
    /\ inflight[g].pc = "cascade_delete"
    /\ LET l == inflight[g]
       IN  /\ cache' = IF l.stage = 1 THEN InMemoryCache_DeleteBanner(cache, l.id)
                       ELSE IF l.stage = 2 THEN InMemoryCache_InvalidateClickStats(cache, l.id)
                       ELSE IF l.stage = 3
                       THEN InMemoryCache_InvalidateBannerWithStats(cache, l.id)
                       ELSE InMemoryCache_InvalidateTopBanners(cache)
           /\ IF l.stage = 4
              THEN Return(g, NoErr, Nil, FALSE, <<l.op>>)
              ELSE /\ inflight' = [inflight EXCEPT ![g].pc = "cascade_lock",
                                                   ![g].stage = l.stage + 1]
                   /\ last' = last
    /\ mu' = Unlock(mu)
    /\ UNCHANGED <<repo, now, ops, setLog, stopChan, cleanup, reaper, panicked, issued>>

RaceNext ==
    \/ \E g \in Goroutines, id \in RaceIDs : CallGetBannerByID(g, id)
    \/ \E g \in Goroutines, id \in RaceIDs : CallGetClickStats(g, id)
    \/ \E g \in Goroutines, id \in RaceIDs : CallDeleteBanner(g, id)
    \/ \E g \in Goroutines : CacheRead(g)
    \/ \E g \in Goroutines : CacheCheck(g)
    \/ \E g \in Goroutines : CacheLock(g)
    \/ \E g \in Goroutines : CacheUpdate(g)
    \/ \E g \in Goroutines, fail \in BOOLEAN : BackingCall(g, fail)
    \/ \E g \in Goroutines : FillLock(g)
    \/ \E g \in Goroutines : FillUpdate(g)
    \/ \E g \in Goroutines : CascadeLock(g)
    \/ \E g \in Goroutines : CascadeDelete(g)
    \/ \E t \in StoreInstants : Tick(t)

SpecRace == Init /\ [][RaceNext]_vars

\* ------------------------------------------------------------------------
\* The cache keys: the handlers and the facade called with ids over the
\* whole range of string(rune(id)), on a database that holds such ids
\* ------------------------------------------------------------------------

InitKeysRepo ==
    [banners |-> [id \in KeyBannerIDs |-> "a"], clicks |-> (1 :> 55296),
     bannerSeq |-> 55297, clickSeq |-> 1]

InitKeys ==
    /\ cache = NewInMemoryCache
    /\ repo = InitKeysRepo
    /\ now = 0
    /\ ops = 0
    /\ last = [op |-> "NewCachedRepository", arg |-> Nil, err |-> NoErr, ret |-> Nil,
               found |-> FALSE, calls |-> <<>>, at |-> 0, removed |-> {}]
    /\ setLog = <<>>
    /\ mu = [writer |-> "none", readers |-> {}]
    /\ stopChan = "open"
    /\ cleanup = [running |-> TRUE, C |-> 0]
    /\ reaper = "select"
    /\ inflight = [g \in Goroutines |-> Idle]
    /\ panicked = FALSE
    /\ issued = [gets |-> 0, sets |-> 0, stops |-> 0, overlap |-> FALSE]

\* Direct calls of the facade by an owner of the cache (GetCache()).
InvalidateClickStats(bannerID) ==
    Complete("InvalidateClickStats", bannerID,
             Outcome(InMemoryCache_InvalidateClickStats(cache, bannerID),
                     repo, NoErr, Nil, FALSE, <<>>))

InvalidateBannerWithStats(id) ==
    Complete("InvalidateBannerWithStats", id,
             Outcome(InMemoryCache_InvalidateBannerWithStats(cache, id),
                     repo, NoErr, Nil, FALSE, <<>>))

KeysNext ==
    \/ \E id \in KeyIDs : GetBannerByID(id, FALSE)
    \/ \E id \in KeyIDs : GetClickStats(id, FALSE)
    \/ \E id \in KeyIDs : SetBannerWithStats(id)
    \/ \E id \in KeyIDs : GetBannerWithStats(id)
    \/ \E id \in KeyIDs : CreateClick(id, FALSE)
    \/ \E id \in ClickIDs : DeleteClick(id, FALSE, FALSE)
    \/ \E id \in KeyIDs : InvalidateClickStats(id)
    \/ \E id \in KeyIDs : InvalidateBannerWithStats(id)
    \/ \E t \in Instants : Tick(t)

SpecKeys == InitKeys /\ [][KeysNext]_vars

Next == RepoNext \/ FacadeNext \/ \E t \in Instants : Tick(t)

Spec == Init /\ [][Next]_vars

\* ------------------------------------------------------------------------
\* Properties of the Cached Repository
\* ------------------------------------------------------------------------

\* The step completes a call of the handler op.
Completes(op) == ops' = ops + 1 /\ last'.op = op

\* A key of the top_banners namespace: "top_banners:" followed by a suffix.
IsTopBannersKey(key) ==
    Len(key) > Len(TopBannersPrefix)
    /\ SubSeq(key, 1, Len(TopBannersPrefix)) = TopBannersPrefix

\* The key has an entry that has not expired at instant t.
Unexpired(c, key, t) == key \in DOMAIN c.items /\ ~(t > c.items[key].ExpiresAt)

ReadOps == {"GetBannerByID", "GetClickStats", "GetTopBanners"}

WriteOps == {"CreateBanner", "UpdateBanner", "DeleteBanner", "CreateClick", "DeleteClick"}

\* The key, the default TTL and the backing-store results of a cached read.
ReadKey(op, arg) ==
    IF op = "GetBannerByID" THEN BannerKey(arg)
    ELSE IF op = "GetClickStats" THEN ClickStatsKey(arg)
    ELSE TopBannersKey(arg)

ReadTTL(op) ==
    IF op = "GetBannerByID" THEN DefaultBannerTTL
    ELSE IF op = "GetClickStats" THEN DefaultClickStatsTTL
    ELSE DefaultTopBannersTTL

BackingResults(db, op, arg) ==
    IF op = "GetBannerByID"
    THEN {Banner(arg, db.banners[id]) : id \in {arg} \cap DOMAIN db.banners}
    ELSE IF op = "GetClickStats" THEN {Repository_GetClickStats(db, arg)}
    ELSE Repository_GetTopBanners(db, arg)

\* The outcomes a cached read of op(arg) can have in cache c over backing
\* store db at instant t, when the backing store does not fail.
ReadOutcomes(c, db, op, arg, t) ==
    IF op = "GetBannerByID" THEN {CachedRepository_GetBannerByID(c, db, arg, FALSE, t)}
    ELSE IF op = "GetClickStats" THEN {CachedRepository_GetClickStats(c, db, arg, FALSE, t)}
    ELSE {CachedRepository_GetTopBanners(c, db, arg, banners, FALSE, t) :
             banners \in Repository_GetTopBanners(db, arg)}

\* C1: after InvalidateBannerCache(id), with no operation in between, the
\* next GetBannerByID(id), the next GetClickStats(id), the next
\* banner-with-stats lookup of id and the next GetTopBanners(limit), for every
\* limit, miss the cache: each cached read calls the backing store.
C1_InvalidateCascadeMisses ==
    last.op = "InvalidateBannerCache" =>
        /\ \A o \in ReadOutcomes(cache, repo, "GetBannerByID", last.arg, now) :
               ~o.found /\ o.calls # <<>>
        /\ \A o \in ReadOutcomes(cache, repo, "GetClickStats", last.arg, now) :
               ~o.found /\ o.calls # <<>>
        /\ ~InMemoryCache_GetBannerWithStats(cache, last.arg, now).found
        /\ \A limit \in Limits :
               \A o \in ReadOutcomes(cache, repo, "GetTopBanners", limit, now) :
                   ~o.found /\ o.calls # <<>>

\* C2: when InvalidateTopBanners has returned, called directly or by
\* CreateBanner, CreateClick, DeleteClick or InvalidateBanner, no entry of the
\* top_banners namespace is left in the table, and a direct call has raised
\* the delete counter by the number of entries it removed.
C2_InvalidateTopBannersEvictsAll ==
    [][(/\ ops' = ops + 1
        /\ last'.err = NoErr
        /\ last'.op \in {"InvalidateTopBanners", "CreateBanner", "CreateClick",
                         "DeleteClick", "InvalidateBannerCache"})
       => /\ \A k \in DOMAIN cache'.items : ~IsTopBannersKey(k)
          /\ last'.op = "InvalidateTopBanners" =>
                 cache'.stats.Deletes = cache.stats.Deletes
                     + Cardinality({k \in DOMAIN cache.items : IsTopBannersKey(k)})]_vars

\* C3: after a successful UpdateBanner(b) with a banner entry of b.ID in the
\* cache, the banner entry of b.ID holds the updated value, and the next
\* GetBannerByID(b.ID) returns it from the cache without a backing-store call.
C3_UpdateRefreshesBanner ==
    [][(/\ Completes("UpdateBanner")
        /\ last'.err = NoErr
        /\ BannerKey(last'.arg.ID) \in DOMAIN cache.items)
       => /\ BannerKey(last'.arg.ID) \in DOMAIN cache'.items
          /\ cache'.items[BannerKey(last'.arg.ID)].Value = last'.arg
          /\ \A o \in ReadOutcomes(cache', repo', "GetBannerByID", last'.arg.ID, now') :
                 o.found /\ o.ret = last'.arg /\ o.calls = <<>>]_vars

\* C4: a successful CreateClick for banner b removes the click_stats and the
\* banner_stats entry of b, leaves the banner entry of b as it was (same value,
\* same expiration), and GetBannerByID(b) returns after it what it returned
\* before it.
C4_CreateClickKeepsBanner ==
    [][(Completes("CreateClick") /\ last'.err = NoErr)
       => /\ ClickStatsKey(last'.arg) \notin DOMAIN cache'.items
          /\ BannerStatsKey(last'.arg) \notin DOMAIN cache'.items
          /\ BannerKey(last'.arg) \in DOMAIN cache.items =>
                 /\ BannerKey(last'.arg) \in DOMAIN cache'.items
                 /\ cache'.items[BannerKey(last'.arg)] = cache.items[BannerKey(last'.arg)]
          /\ LET before == CachedRepository_GetBannerByID(cache, repo, last'.arg, FALSE, now)
                 after == CachedRepository_GetBannerByID(cache', repo', last'.arg, FALSE, now')
             IN  /\ after.ret = before.ret
                 /\ after.err = before.err
                 /\ after.found = before.found]_vars

\* A click was created for a banner whose banner, click_stats and banner_stats
\* entries were all in the cache.
C4_Witness ==
    /\ last.op = "CreateClick"
    /\ last.err = NoErr
    /\ last.removed = {ClickStatsKey(last.arg), BannerStatsKey(last.arg)}
    /\ Unexpired(cache, BannerKey(last.arg), now)

\* C5: a write whose backing-store call fails returns the error and leaves the
\* cache as it was (entries, expirations, counters); the cache changes in a
\* write only when the backing store has accepted the write.
C5_FailedWriteLeavesCache ==
    [][(ops' = ops + 1 /\ last'.op \in WriteOps)
       => /\ last'.err # NoErr => (cache' = cache /\ repo' = repo)
          /\ cache' # cache => (last'.err = NoErr /\ last'.calls # <<>>)]_vars

\* A delete of a banner failed while entries of that banner were cached.
C5_Witness ==
    /\ last.op = "DeleteBanner"
    /\ last.err # NoErr
    /\ BannerKey(last.arg) \in DOMAIN cache.items
    /\ ClickStatsKey(last.arg) \in DOMAIN cache.items

\* C6: read-through of GetBannerByID, GetClickStats and GetTopBanners.  With
\* an unexpired entry under the key, the read returns the cached value and
\* calls no backing store; without one it calls the backing store exactly
\* once and, on success, stores the result under the key with the default TTL
\* of the kind and returns it.
C6_ReadThrough ==
    [][(ops' = ops + 1 /\ last'.op \in ReadOps)
       => LET key == ReadKey(last'.op, last'.arg)
          IN  IF Unexpired(cache, key, now)
              THEN /\ last'.err = NoErr
                   /\ last'.ret = cache.items[key].Value
                   /\ last'.calls = <<>>
                   /\ repo' = repo
              ELSE /\ Len(last'.calls) = 1
                   /\ last'.err = NoErr =>
                          /\ last'.ret \in BackingResults(repo, last'.op, last'.arg)
                          /\ key \in DOMAIN cache'.items
                          /\ cache'.items[key] =
                                 [Value |-> last'.ret,
                                  ExpiresAt |-> now + ReadTTL(last'.op)]]_vars

\* A read was served from an entry stored at an earlier instant.
C6_Witness ==
    /\ last.op \in ReadOps
    /\ last.found
    /\ last.calls = <<>>
    /\ last.at > 0

\* C7: an error of the backing store is not cached.  A cached read that misses
\* and gets an error returns that error, leaves no entry under the key, and the
\* next read of the same key calls the backing store again.
C7_ErrorsNotCached ==
    [][(ops' = ops + 1 /\ last'.op \in ReadOps /\ last'.err # NoErr)
       => /\ ~last'.found
          /\ Len(last'.calls) = 1
          /\ last'.err \in {ErrNotFound, ErrBacking}
          /\ last'.err = ErrNotFound =>
                 (last'.op = "GetBannerByID" /\ last'.arg \notin DOMAIN repo.banners)
          /\ ReadKey(last'.op, last'.arg) \notin DOMAIN cache'.items
          /\ \A o \in ReadOutcomes(cache', repo', last'.op, last'.arg, now') :
                 ~o.found /\ Len(o.calls) = 1]_vars

\* A banner that does not exist was looked up.
C7_Witness ==
    /\ last.op = "GetBannerByID"
    /\ last.err = ErrNotFound
    /\ ~last.found

\* C8: after a successful CreateBanner(e), as long as the entry has not
\* expired and no other operation has run, GetBannerByID(e.ID) returns e from
\* the cache without a backing-store call.
C8_CreateThenGetHits ==
    (last.op = "CreateBanner" /\ last.err = NoErr /\ now <= last.at + DefaultBannerTTL)
    => LET o == CachedRepository_GetBannerByID(cache, repo, last.ret.ID, FALSE, now)
       IN  /\ o.found
           /\ o.err = NoErr
           /\ o.ret = last.ret
           /\ o.calls = <<>>

\* A banner was created and time has passed since, less than its TTL.
C8_Witness ==
    /\ last.op = "CreateBanner"
    /\ last.err = NoErr
    /\ now > last.at
    /\ now <= last.at + DefaultBannerTTL

\* C13: after Clear() the table is empty (Size() is 0 and every key is
\* absent), and the hit, miss, set, delete and expiration counters that
\* Stats() reports are the ones it reported just before Clear().
C13_ClearKeepsCounters ==
    [][Completes("ClearCache")
       => /\ InMemoryCache_Size(cache') = 0
          /\ DOMAIN cache'.items = {}
          /\ \A id \in BannerIDs :
                 /\ ~InMemoryCache_GetBanner(cache', id, now').found
                 /\ ~InMemoryCache_GetClickStats(cache', id, now').found
                 /\ ~InMemoryCache_GetBannerWithStats(cache', id, now').found
          /\ \A limit \in Limits : ~InMemoryCache_GetTopBanners(cache', limit, now').found
          /\ InMemoryCache_Stats(cache') = [InMemoryCache_Stats(cache) EXCEPT !.Size = 0]
          /\ CachedRepository_GetCacheStats(cache', repo').ret.Size = 0]_vars

\* Clear emptied a table that held entries, after sets and misses were counted.
C13_Witness ==
    /\ last.op = "ClearCache"
    /\ last.removed # {}
    /\ cache.stats.Sets > 0
    /\ cache.stats.Misses > 0
    /\ DOMAIN cache.items = {}

\* C18: right after a successful DeleteBanner(id), the banner entry, the
\* click_stats entry and the banner_stats entry of id are not in the table.
C18_DeleteBannerRemovesEntries ==
    [][(Completes("DeleteBanner") /\ last'.err = NoErr)
       => /\ BannerKey(last'.arg) \notin DOMAIN cache'.items
          /\ ClickStatsKey(last'.arg) \notin DOMAIN cache'.items
          /\ BannerStatsKey(last'.arg) \notin DOMAIN cache'.items
          /\ {BannerKey(last'.arg), ClickStatsKey(last'.arg), BannerStatsKey(last'.arg)}
                 \cap DOMAIN cache.items \subseteq last'.removed]_vars

\* A successful DeleteBanner took the three entries of the banner out of the
\* table.
C18_Witness ==
    /\ last.op = "DeleteBanner"
    /\ last.err = NoErr
    /\ last.removed = {BannerKey(last.arg), ClickStatsKey(last.arg), BannerStatsKey(last.arg)}

\* C19: DeleteClick(id) looks the click up in the backing store, without
\* reading the cache, then deletes it there, then removes click_stats and
\* banner_stats of the owning banner and every top_banners entry; when the
\* lookup fails no delete is attempted and the cache is unchanged; when the
\* delete fails the cache is unchanged.
C19_DeleteClickOrder ==
    [][Completes("DeleteClick")
       => /\ Len(last'.calls) >= 1
          /\ last'.calls[1] = "GetClickByID"
          /\ cache'.stats.Hits = cache.stats.Hits
          /\ cache'.stats.Misses = cache.stats.Misses
          /\ Len(last'.calls) = 1
             => (last'.err # NoErr /\ cache' = cache /\ repo' = repo)
          /\ Len(last'.calls) > 1
             => /\ last'.calls = <<"GetClickByID", "DeleteClick">>
                /\ last'.arg \in DOMAIN repo.clicks
          /\ last'.err # NoErr => cache' = cache
          /\ last'.err = NoErr
             => /\ last'.calls = <<"GetClickByID", "DeleteClick">>
                /\ last'.arg \notin DOMAIN repo'.clicks
                /\ ClickStatsKey(repo.clicks[last'.arg]) \notin DOMAIN cache'.items
                /\ BannerStatsKey(repo.clicks[last'.arg]) \notin DOMAIN cache'.items
                /\ \A key \in DOMAIN cache'.items : ~IsTopBannersKey(key)]_vars

\* C21: WarmCache returns an error exactly when the load of all banners
\* fails, and then leaves the cache as it was.  Otherwise it returns nil and
\* has stored every banner of the backing store, the click stats of exactly
\* the banners whose stats load succeeded (the entries of the others are as
\* they were), and the top-banners entry of limit 10 if that load succeeded
\* (as it was otherwise).
C21_WarmCacheSwallowsPartialFailures ==
    [][Completes("WarmCache")
       => LET a == last'.arg
              ids == DOMAIN repo.banners
              Same(key) ==
                  /\ (key \in DOMAIN cache'.items) = (key \in DOMAIN cache.items)
                  /\ key \in DOMAIN cache.items => cache'.items[key] = cache.items[key]
          IN  /\ (last'.err # NoErr) = a.failAll
              /\ a.failAll => cache' = cache
              /\ ~a.failAll =>
                    /\ last'.err = NoErr
                    /\ \A id \in ids :
                           /\ BannerKey(id) \in DOMAIN cache'.items
                           /\ cache'.items[BannerKey(id)] =
                                  [Value |-> Banner(id, repo.banners[id]),
                                   ExpiresAt |-> now + DefaultBannerTTL]
                    /\ \A id \in ids \ a.failStats :
                           /\ ClickStatsKey(id) \in DOMAIN cache'.items
                           /\ cache'.items[ClickStatsKey(id)] =
                                  [Value |-> Repository_GetClickStats(repo, id),
                                   ExpiresAt |-> now + DefaultClickStatsTTL]
                    /\ \A id \in a.failStats : Same(ClickStatsKey(id))
                    /\ ~a.failTop =>
                           /\ TopBannersKey(WarmLimit) \in DOMAIN cache'.items
                           /\ cache'.items[TopBannersKey(WarmLimit)].Value
                                  \in Repository_GetTopBanners(repo, WarmLimit)
                           /\ cache'.items[TopBannersKey(WarmLimit)].ExpiresAt
                                  = now + DefaultTopBannersTTL
                    /\ a.failTop => Same(TopBannersKey(WarmLimit))
                    /\ \A id \in BannerIDs : Same(BannerStatsKey(id))
                    /\ repo' = repo]_vars

\* WarmCache returned nil although the stats load of one of two banners and
\* the top-banners load failed: the banners and the other stats are stored.
C21_Witness ==
    /\ last.op = "WarmCache"
    /\ last.err = NoErr
    /\ ~last.arg.failAll
    /\ last.arg.failTop
    /\ last.arg.failStats = {1}
    /\ DOMAIN repo.banners = {1, 2}
    /\ ClickStatsKey(1) \notin DOMAIN cache.items
    /\ ClickStatsKey(2) \in DOMAIN cache.items
    /\ BannerKey(1) \in DOMAIN cache.items
    /\ TopBannersKey(WarmLimit) \notin DOMAIN cache.items

\* ------------------------------------------------------------------------
\* Properties of the bypass reads (under SpecBypass)
\* ------------------------------------------------------------------------

BypassOps ==
    {"GetAllBanners", "GetBannerByName", "SearchBannersByName", "GetBannersWithClickCount",
     "GetClickByID", "GetAllClicks", "GetClicksByBannerID", "GetClicksByDateRange",
     "GetClicksByBannerIDAndDateRange", "GetClicksByHour", "GetClicksByDay"}

C9_RetrievableUntilTTL ==
    /\ (last.op = "set" /\ last.arg.ttl > 0 /\ now = last.at)
       => LET r == get(cache, last.arg.key, now)
          IN  r.found /\ r.value = last.arg.value
    /\ \A k \in DOMAIN setLog :
           (setLog[k].ttl > 0 /\ now > setLog[k].at + setLog[k].ttl)
           => ~get(cache, k, now).found
    /\ last.op = "get" =>
           /\ (last.arg \in DOMAIN setLog /\ setLog[last.arg].ttl > 0
                   /\ last.at > setLog[last.arg].at + setLog[last.arg].ttl)
              => ~last.found
           /\ last.found => last.ret = setLog[last.arg].value

\* A get missed a key at an instant later than the set-time plus TTL of its
\* latest set.
C9_Witness ==
    /\ last.op = "get"
    /\ ~last.found
    /\ last.arg \in DOMAIN setLog
    /\ setLog[last.arg].ttl > 0
    /\ last.at > setLog[last.arg].at + setLog[last.arg].ttl

C12_DeleteIdempotent ==
    [][Completes("delete")
       => LET k == last'.arg
          IN  /\ k \in DOMAIN cache.items
                 => /\ cache'.items = MapDelete(cache.items, k)
                    /\ cache'.stats = [cache.stats EXCEPT !.Deletes = @ + 1]
              /\ k \notin DOMAIN cache.items => cache' = cache
              /\ delete(cache', k) = cache'
              /\ delete(delete(cache, k), k) = delete(cache, k)]_vars

\* A delete removed a key that was present, and other keys are still there.
C12_Witness ==
    /\ last.op = "delete"
    /\ last.removed = {last.arg}
    /\ cache.stats.Deletes = 1
    /\ DOMAIN cache.items # {}

\* ------------------------------------------------------------------------
\* Properties of the Cache Store under concurrency (SpecConc, SpecConcLive)
\* ------------------------------------------------------------------------

\* The goroutines that are inside a get, inside a set.
InGet == {g \in Goroutines : inflight[g].pc \in {"get_read", "get_check", "get_lock",
                                                  "get_update"}}
InSet == {g \in Goroutines : inflight[g].pc = "set_update"}

\* C14: no counter update is lost: whenever the get and set calls issued have
\* all returned, hits + misses is the number of get calls and sets is the
\* number of set calls; while some are in flight, the counters account for
\* exactly the calls that have returned.
C14_NoLostCounterUpdates ==
    /\ cache.stats.Hits + cache.stats.Misses = issued.gets - Cardinality(InGet)
    /\ cache.stats.Sets = issued.sets - Cardinality(InSet)
    /\ (InGet = {} /\ InSet = {})
       => /\ cache.stats.Hits + cache.stats.Misses = issued.gets
          /\ cache.stats.Sets = issued.sets

\* Gets and sets of different keys overlapped, and all of them have returned.
C14_Witness ==
    /\ \A g \in Goroutines : inflight[g].pc = "idle"
    /\ issued.overlap
    /\ issued.gets >= 1
    /\ issued.sets >= 1
    /\ issued.gets + issued.sets >= 3

\* C15: no execution panics: Stop can be invoked while get and set calls and
\* the reaper are in flight, and when Stop is called more than once no call
\* closes the stop channel that is already closed.
C15_StopNeverPanics == ~panicked

\* C16: once Stop() has been called, and has closed the stop channel, the
\* cleanupExpired goroutine eventually returns, whether or not a tick is
\* buffered and whoever holds the lock at that moment.
C16_ReaperTerminatesAfterStop ==
    (stopChan = "closed" /\ ~panicked) ~> (reaper = "done" \/ panicked)

\* The reaper has returned after one Stop, while a caller holds the lock.
C16_Witness ==
    /\ reaper = "done"
    /\ stopChan = "closed"
    /\ ~panicked
    /\ issued.stops = 1
    /\ mu.writer \in Goroutines

\* C17: while Stop has not been called, an entry whose expiration instant has
\* passed is eventually taken out of the table, without any get of its key
\* being needed.
C17_ReaperRemovesExpired ==
    \A k \in ConcKeys :
        (k \in DOMAIN cache.items /\ IsExpired(cache.items[k], now))
        ~> \/ k \notin DOMAIN cache.items
           \/ ~IsExpired(cache.items[k], now)
           \/ ~cleanup.running
           \/ panicked

\* The reaper has removed expired entries, and no get was ever called.
C17_Witness ==
    /\ cache.stats.Expirations > 0
    /\ issued.gets = 0
    /\ DOMAIN cache.items = {}
    /\ cleanup.running
    /\ reaper = "select"

\* ------------------------------------------------------------------------
\* Properties of the Cached Repository under concurrency (SpecRace)
\* ------------------------------------------------------------------------

\* The goroutine is inside a backing-store call.
InBackingCall(g) == inflight[g].pc = "repo_call"

\* C22: a goroutine that is inside a backing-store call holds neither the
\* read nor the write lock of the cache; the lock is held only inside get,
\* set, delete and InvalidateTopBanners, so that while every other goroutine
\* is idle or inside a backing-store call, Lock() and RLock() do not wait.
C22_NoLockDuringBackingCall ==
    /\ \A g \in Goroutines :
           InBackingCall(g) => (mu.writer # g /\ g \notin mu.readers)
    /\ \A g \in Goroutines :
           /\ mu.writer = g
              <=> inflight[g].pc \in {"cache_update", "fill_update", "cascade_delete"}
           /\ g \in mu.readers <=> inflight[g].pc = "cache_read"
    /\ (\A g \in Goroutines : inflight[g].pc = "idle" \/ InBackingCall(g))
       => (CanLock(mu) /\ CanRLock(mu))

\* A goroutine is inside the backing-store call of a read that missed, after
\* its get has locked and unlocked, while the other one holds the write lock.
C22_Witness ==
    \E g, h \in Goroutines :
        /\ InBackingCall(g)
        /\ inflight[g].op = "GetBannerByID"
        /\ cache.stats.Misses > 0
        /\ mu.writer = h
        /\ h # g

\* The goroutine is between two of the four calls of an InvalidateBanner.
InCascade(g) ==
    /\ inflight[g].pc \in {"cascade_lock", "cascade_delete"}
    /\ inflight[g].stage >= 2

\* The step is a lock region of a cache call of the goroutine h.
TakesEffect(h) ==
    /\ inflight[h].pc \in {"cache_read", "cache_update", "fill_update", "cascade_delete"}
    /\ inflight'[h] # inflight[h]

\* C23: the cascade of one InvalidateBanner(id) is atomic: between two of its
\* steps no cache operation of another caller on the keys of the same id
\* takes effect.
C23_CascadeAtomic ==
    [][\A g, h \in Goroutines :
           (h # g /\ InCascade(g) /\ inflight[h].pc # "idle"
                /\ inflight[h].id = inflight[g].id)
           => ~TakesEffect(h)]_vars

\* C25: the time a value, stale or not, is served from the cache is bounded
\* by the default TTL of its kind: a read-through stores what it fetched with
\* expiration = instant of the population + default TTL, a read is served
\* from the entry only at instants not after that expiration, and at every
\* later instant a read of the key misses, calls the backing store and
\* returns the value the backing store holds then.
C25_StalenessBoundedByTTL ==
    [][/\ \A g \in Goroutines :
              /\ (inflight[g].pc = "fill_update" /\ inflight'[g].pc = "idle"
                      /\ inflight[g].op = "GetBannerByID")
                 => cache'.items[BannerKey(inflight[g].id)] =
                        [Value |-> inflight[g].value, ExpiresAt |-> now + DefaultBannerTTL]
              /\ (inflight[g].pc = "cache_check" /\ inflight'[g].pc = "cache_lock")
                 => /\ inflight'[g].path = "hit"
                       <=> (inflight[g].exists /\ now <= inflight[g].item.ExpiresAt)
                    /\ (inflight[g].exists /\ inflight[g].op = "GetBannerByID")
                       => inflight[g].item.ExpiresAt - DefaultBannerTTL <= now
              /\ (inflight[g].pc = "cache_update" /\ inflight'[g] # inflight[g])
                 => IF inflight[g].path = "hit"
                    THEN last'.found /\ last'.ret = inflight[g].item.Value
                    ELSE inflight'[g].pc = "repo_call"
              /\ (inflight[g].pc = "repo_call" /\ inflight'[g].pc = "fill_lock"
                      /\ inflight[g].op = "GetBannerByID")
                 => inflight'[g].value = Repository_GetBannerByID(repo, inflight[g].id).value
       /\ \A id \in RaceIDs :
              BannerKey(id) \in DOMAIN cache'.items
              => /\ cache'.items[BannerKey(id)].ExpiresAt <= now' + DefaultBannerTTL
                 /\ now' > cache'.items[BannerKey(id)].ExpiresAt
                    => LET o == CachedRepository_GetBannerByID(cache', repo', id, FALSE, now')
                       IN  /\ ~o.found
                           /\ o.calls = <<"GetBannerByID">>
                           /\ o.ret = Repository_GetBannerByID(repo', id).value]_vars

\* The race has happened: DeleteBanner has returned and the banner is gone
\* from the backing store, the read that had missed before the invalidation
\* has stored the banner afterwards, and a later GetBannerByID has returned
\* it from the cache, within the TTL of its population.
C25_Witness ==
    /\ \A g \in Goroutines : inflight[g].pc = "idle"
    /\ last.op = "GetBannerByID"
    /\ last.found
    /\ last.arg \notin DOMAIN repo.banners
    /\ last.ret = Banner(last.arg, "a")
    /\ BannerKey(last.arg) \in DOMAIN cache.items
    /\ last.at > cache.items[BannerKey(last.arg)].ExpiresAt - DefaultBannerTTL
    /\ last.at <= cache.items[BannerKey(last.arg)].ExpiresAt
    /\ cache.stats.Deletes = 0

\* ------------------------------------------------------------------------
\* Properties of the cache keys (SpecKeys)
\* ------------------------------------------------------------------------

\* The four key constructors.
KeyOf(namespace, id) ==
    IF namespace = "banner" THEN BannerKey(id)
    ELSE IF namespace = "click_stats" THEN ClickStatsKey(id)
    ELSE IF namespace = "banner_stats" THEN BannerStatsKey(id)
    ELSE TopBannersKey(id)

Namespaces == {"banner", "click_stats", "banner_stats", "top_banners"}

\* C24: within a namespace two different ids (or limits) never have the same
\* key, whatever the integers are, and keys of different namespaces are never
\* equal; hence a GetBanner(id) never returns the banner of another id.
C24_KeysUnique ==
    /\ \A ns \in Namespaces : \A id1, id2 \in KeyIDs :
           id1 # id2 => KeyOf(ns, id1) # KeyOf(ns, id2)
    /\ \A ns1, ns2 \in Namespaces : \A id1, id2 \in KeyIDs :
           ns1 # ns2 => KeyOf(ns1, id1) # KeyOf(ns2, id2)
    /\ \A id \in KeyIDs :
           LET r == InMemoryCache_GetBanner(cache, id, now)
           IN  r.found => r.value.ID = id

\* The narrow invalidations and the banner they are called for.
NarrowOps == {"InvalidateClickStats", "InvalidateBannerWithStats", "CreateClick", "DeleteClick"}

\* C26: InvalidateClickStats(x), InvalidateBannerWithStats(x), a successful
\* CreateClick for x and a successful DeleteClick of a click of x leave every
\* banner entry, and the click_stats and banner_stats entries of every id
\* other than x, as they were.
C26_NarrowInvalidationFrame ==
    [][(last'.op \in NarrowOps /\ ops' = ops + 1 /\ last'.err = NoErr)
       => LET x == IF last'.op = "DeleteClick" THEN repo.clicks[last'.arg] ELSE last'.arg
              Same(key) ==
                  /\ (key \in DOMAIN cache'.items) = (key \in DOMAIN cache.items)
                  /\ key \in DOMAIN cache.items => cache'.items[key] = cache.items[key]
          IN  \A y \in KeyIDs :
                  /\ Same(BannerKey(y))
                  /\ y # x => (Same(ClickStatsKey(y)) /\ Same(BannerStatsKey(y)))]_vars

\* ------------------------------------------------------------------------
\* Properties of the Cache Store: counters, overwrite, sweep and size
\* ------------------------------------------------------------------------

\* The entries of every key but k are the same before and after the step.
OthersUnchanged(k) ==
    \A j \in (DOMAIN cache.items \cup DOMAIN cache'.items) \ {k} :
        /\ j \in DOMAIN cache.items
        /\ j \in DOMAIN cache'.items
        /\ cache'.items[j] = cache.items[j]

\* C27: a completed get(k) does exactly one of three things. k absent: the
\* miss counter grows by one and nothing else changes. k present and not
\* expired: the hit counter grows by one and nothing else changes. k present
\* and expired: the miss and the expiration counter grow by one each and the
\* entry of k is removed, nothing else.
C27_GetCounters ==
    [][Completes("get")
       => LET k == last'.arg
              present == k \in DOMAIN cache.items
              expired == present /\ now > cache.items[k].ExpiresAt
          IN  /\ OthersUnchanged(k)
              /\ IF ~present
                 THEN /\ cache'.stats = [cache.stats EXCEPT !.Misses = @ + 1]
                      /\ cache'.items = cache.items
                      /\ ~last'.found
                 ELSE IF ~expired
                 THEN /\ cache'.stats = [cache.stats EXCEPT !.Hits = @ + 1]
                      /\ cache'.items = cache.items
                      /\ last'.found
                 ELSE /\ cache'.stats = [cache.stats EXCEPT !.Misses = @ + 1,
                                                            !.Expirations = @ + 1]
                      /\ k \notin DOMAIN cache'.items
                      /\ ~last'.found]_vars

\* A get has just found the entry of its key expired: it missed, removed the
\* entry and counted one expiration.
C27_Witness ==
    /\ last.op = "get"
    /\ ~last.found
    /\ cache.stats.Expirations = 1
    /\ cache.stats.Misses = 1
    /\ cache.stats.Hits = 0
    /\ last.arg \notin DOMAIN cache.items

\* C28: set overwrites. Every set(k, v, ttl) leaves exactly one entry for k,
\* with value v and expiration = the instant of this set + ttl, adds one to
\* the set counter only and changes no entry of another key; when k already
\* has an entry (in particular when the previous operation was a set of k)
\* the size stays what it was, so that two sets of k in a row add two to the
\* set counter and one entry at most.
C28_SetOverwrites ==
    [][Completes("set")
       => LET a == last'.arg
          IN  /\ a.key \in DOMAIN cache'.items
              /\ cache'.items[a.key] = [Value |-> a.value, ExpiresAt |-> now + a.ttl]
              /\ OthersUnchanged(a.key)
              /\ cache'.stats = [cache.stats EXCEPT !.Sets = @ + 1]
              /\ (a.key \in DOMAIN cache.items
                  => InMemoryCache_Size(cache') = InMemoryCache_Size(cache))
              /\ (last.op = "set" /\ last.arg.key = a.key
                  => /\ a.key \in DOMAIN cache.items
                     /\ cache'.stats.Sets >= 2)]_vars

\* Two sets of the same key and nothing else: the second, at instant 3 with
\* a TTL of 5 and the value "b", is what the table holds.
C28_Witness ==
    /\ ops = 2
    /\ last.op = "set"
    /\ cache.stats.Sets = 2
    /\ now = 3
    /\ last.arg.ttl = 5
    /\ last.arg.value = Banner(1, "b")
    /\ InMemoryCache_Size(cache) = 1
    /\ cache.items[last.arg.key] = [Value |-> Banner(1, "b"), ExpiresAt |-> 8]
    /\ setLog[last.arg.key].at = 3

\* C29: one pass of the reaper removes exactly the entries whose expiration
\* instant has passed, leaves the others as they are, adds the number of
\* entries it removed to the expiration counter and changes no other counter.
C29_ReaperPass ==
    [][(reaper = "sweep" /\ reaper' = "select")
       => LET passed == {k \in DOMAIN cache.items : now > cache.items[k].ExpiresAt}
          IN  /\ DOMAIN cache'.items = (DOMAIN cache.items) \ passed
              /\ \A k \in DOMAIN cache'.items : cache'.items[k] = cache.items[k]
              /\ cache'.stats = [cache.stats EXCEPT
                                   !.Expirations = @ + Cardinality(passed)]]_vars

\* The reaper has finished a pass at instant 3 that removed the entry set at
\* instant 0 with a TTL of 1 and kept the one set at instant 0 with a TTL of
\* 5: no get ran, so the pass removed it.
C29_Witness ==
    /\ reaper = "select"
    /\ issued.gets = 0
    /\ now = 3
    /\ cache.stats.Expirations = 1
    /\ cache.stats.Sets = 2
    /\ \E k \in ConcKeys : DOMAIN cache.items = {k} /\ cache.items[k].ExpiresAt = 5

\* C30: Size() and Stats().Size are the number of entries in the table. The
\* number changes only when an entry is put in or taken out: one more after
\* a set of an absent key, one less after a delete of a present key or a get
\* of an expired one, and the same after everything else, the passing of
\* time over an expiration instant included.
C30_SizeCountsTable ==
    [][/\ InMemoryCache_Stats(cache').Size = InMemoryCache_Size(cache')
       /\ InMemoryCache_Size(cache') = InMemoryCache_Size(cache) +
            (IF Completes("set") /\ last'.arg.key \notin DOMAIN cache.items THEN 1
             ELSE IF Completes("delete") /\ last'.arg \in DOMAIN cache.items THEN -1
             ELSE IF /\ Completes("get")
                     /\ last'.arg \in DOMAIN cache.items
                     /\ now > cache.items[last'.arg].ExpiresAt THEN -1
             ELSE 0)]_vars

\* An entry has expired and nothing has removed it: the size counts it, and
\* an entry that is not expired.
C30_Witness ==
    /\ InMemoryCache_Size(cache) = 2
    /\ InMemoryCache_Stats(cache).Size = 2
    /\ \E k \in DOMAIN cache.items : now > cache.items[k].ExpiresAt
    /\ \E k \in DOMAIN cache.items : ~(now > cache.items[k].ExpiresAt)

\* ------------------------------------------------------------------------
\* Properties of the Cache Store under concurrency, every mutation included
\* (SpecAtomic)
\* ------------------------------------------------------------------------

\* C31: the hit, miss, set, delete and expiration counters never decrease,
\* whatever step of whatever operation is taken.
C31_CountersMonotonic ==
    [][/\ cache'.stats.Hits >= cache.stats.Hits
       /\ cache'.stats.Misses >= cache.stats.Misses
       /\ cache'.stats.Sets >= cache.stats.Sets
       /\ cache'.stats.Deletes >= cache.stats.Deletes
       /\ cache'.stats.Expirations >= cache.stats.Expirations]_vars

\* A set and then a Clear have returned (nothing was deleted or expired, and
\* the table is empty): the set counter still holds the set.
C31_Witness ==
    /\ \A g \in Goroutines : inflight[g].pc = "idle"
    /\ cache.stats.Sets = 1
    /\ cache.stats.Deletes = 0
    /\ cache.stats.Expirations = 0
    /\ cache.items = <<>>
    /\ mu.writer = "none"

\* The pair a set call writes: its value, and its instant plus its TTL.
PairOf(rec) == [Value |-> rec.value, ExpiresAt |-> rec.at + rec.ttl]

\* C32: the (value, expiration) pair a get reads from the table is the pair
\* written by one set call of that key, the last one, and the get goes on
\* examining that pair whatever set, delete, Clear or reaper pass runs
\* before it returns.
C32_NoPartialEntry ==
    [][\A g \in Goroutines :
         LET l == inflight[g]
             m == inflight'[g]
         IN  /\ (l.pc = "get_read" /\ m.pc = "get_check" /\ m.exists)
                => /\ l.key \in DOMAIN setLog
                   /\ m.item = PairOf(setLog[l.key])
             /\ (l.pc \in {"get_check", "get_lock"} /\ m.pc \in {"get_lock", "get_update"})
                => (m.item = l.item /\ m.exists = l.exists)]_vars

\* A get has read an entry and waits for the write lock while a set of
\* another goroutine has replaced the entry by another value and expiration.
C32_Witness ==
    \E g \in Goroutines :
        /\ inflight[g].pc = "get_lock"
        /\ inflight[g].exists
        /\ inflight[g].key \in DOMAIN cache.items
        /\ cache.items[inflight[g].key].Value # inflight[g].item.Value
        /\ cache.items[inflight[g].key].ExpiresAt # inflight[g].item.ExpiresAt

\* C37: a get that returns a hit returns a value that a set stored under its
\* key and that was unexpired when the get read the table: the entry read is
\* the one of the last set of the key, the get takes the hit path only when
\* the expiration instant has not passed at the instant of its check, and
\* that check comes after the start and the read, time never going back.
C37_HitWasUnexpired ==
    [][/\ now' >= now
       /\ \A g \in Goroutines :
            LET l == inflight[g]
                m == inflight'[g]
            IN  /\ (l.pc = "get_read" /\ m.pc = "get_check" /\ m.exists)
                   => m.item.Value = setLog[l.key].value
                /\ (l.pc = "get_check" /\ m.pc = "get_lock" /\ m.path = "hit")
                   => (l.exists /\ ~(now > l.item.ExpiresAt))
                /\ (l.pc = "get_lock" /\ m.pc = "get_update")
                   => m.path = l.path]_vars

\* A get is about to return a hit for an entry that was unexpired when it
\* read it and whose expiration instant has passed since.
C37_Witness ==
    \E g \in Goroutines :
        /\ inflight[g].pc = "get_update"
        /\ inflight[g].path = "hit"
        /\ now > inflight[g].item.ExpiresAt

\* C35: a get never removes an entry that is unexpired at the moment of the
\* removal: the entry its last step takes out of the table has an expiration
\* instant that has passed.
C35_GetRemovesOnlyExpired ==
    [][\A g \in Goroutines :
         LET k == inflight[g].key
         IN  (/\ inflight[g].pc = "get_update"
              /\ inflight'[g].pc = "idle"
              /\ k \in DOMAIN cache.items
              /\ k \notin DOMAIN cache'.items)
             => now > cache.items[k].ExpiresAt]_vars

\* C36: in every state the entries in the table, the deletes and the
\* expirations together are at most the sets: no entry is counted as expired
\* twice.
C36_CountersAccount ==
    InMemoryCache_Size(cache) + cache.stats.Deletes + cache.stats.Expirations
        <= cache.stats.Sets

\* ------------------------------------------------------------------------
\* Properties of the typed reads (SpecTyped) and of the entries the Cached
\* Repository writes (SpecRepository)
\* ------------------------------------------------------------------------

\* The type the typed getter of a read accepts.
ReadType(op) ==
    IF op = "GetBannerByID" THEN "Banner"
    ELSE IF op = "GetClickStats" THEN "ClickStats"
    ELSE "TopBanners"

\* The key holds an unexpired entry whose value is not of the given type.
BadEntry(c, key, type, t) == Unexpired(c, key, t) /\ c.items[key].Value.type # type

\* C33: when the entry under the key of a read is of another type than the
\* kind's, the read is not a hit, it calls the backing store, and when that
\* call succeeds the read returns its value and the value replaces the bad
\* entry under the same key; the only errors are those of the backing store,
\* and then the entry stays.
C33_BadTypeFallsThrough ==
    [][\A op \in ReadOps :
         (Completes(op) /\ BadEntry(cache, ReadKey(op, last'.arg), ReadType(op), now))
         => LET key == ReadKey(op, last'.arg)
            IN  /\ ~last'.found
                /\ last'.calls = <<op>>
                /\ last'.err \in {NoErr, ErrBacking, ErrNotFound}
                /\ last'.err = NoErr
                   => /\ last'.ret.type = ReadType(op)
                      /\ key \in DOMAIN cache'.items
                      /\ cache'.items[key].Value = last'.ret
                      /\ ~BadEntry(cache', key, ReadType(op), now)
                /\ last'.err # NoErr
                   => /\ last'.ret = Nil
                      /\ cache'.items = cache.items]_vars

\* GetBannerByID(1) returned the banner of the backing store and left it in
\* the cache, after a value of another type had been stored under its key
\* (the one hit counted is the get of that value).
C33_Witness ==
    /\ last.op = "GetBannerByID"
    /\ last.err = NoErr
    /\ ~last.found
    /\ last.ret = Banner(1, "a")
    /\ cache.stats.Hits = 1
    /\ cache.stats.Sets = 2
    /\ cache.items[BannerKey(1)].Value = Banner(1, "a")

\* A key of a namespace: the prefix followed by a suffix.
HasPrefix(key, prefix) ==
    Len(key) > Len(prefix) /\ SubSeq(key, 1, Len(prefix)) = prefix

\* The minutes an entry of the key's kind lives.
KindTTL(key) ==
    IF HasPrefix(key, BannerPrefix) THEN 5
    ELSE IF HasPrefix(key, ClickStatsPrefix) THEN 2
    ELSE IF HasPrefix(key, TopBannersPrefix) THEN 1
    ELSE 0

\* C34: an entry that an operation of the Cached Repository writes expires
\* at the instant of the write plus 5 minutes for a banner, 2 for click
\* statistics and 1 for a top-banners list, and an operation that hits
\* leaves every entry, its expiration included, as it was.
C34_DefaultTTLs ==
    [][/\ \A k \in DOMAIN cache'.items :
            (k \notin DOMAIN cache.items \/ cache'.items[k] # cache.items[k])
            => /\ KindTTL(k) > 0
               /\ cache'.items[k].ExpiresAt = now + KindTTL(k)
       /\ (ops' = ops + 1 /\ last'.found) => cache'.items = cache.items]_vars

\* GetBannerByID hit at instant 3 an entry written at instant 0: it still
\* expires at instant 5.
C34_Witness ==
    /\ last.op = "GetBannerByID"
    /\ last.found
    /\ now = 3
    /\ cache.items[BannerKey(last.arg)].ExpiresAt = 5

====
